---- MODULE Spec2Model ----
(***************************************************************************)
(* Unified sensor firmware (ESP32, MAX30100 + ADXL335 + FSR, BLE control): *)
(* the mode-switching acquisition state machine of the unified sketch.     *)
(*                                                                         *)
(* Program globals are the variables below.  Every handler of the sketch   *)
(* (BLE connect / disconnect / control write, one iteration of loop()) is  *)
(* an operator from a record of the globals to the record after the        *)
(* handler has returned; an action commits that record.  Text is a         *)
(* sequence of one-character strings, so that strncmp / strcmp / strchr /  *)
(* strncpy / atoi are computed as the C library computes them.  Values     *)
(* held in float variables are integers in thousandths.  The clock         *)
(* (millis()) advances between handlers; the delay() calls of a handler    *)
(* are part of the time that passes before the next clock reading.         *)
(***************************************************************************)
EXTENDS Integers, Sequences, FiniteSets, TLC

VARIABLES
    currentMode, tsLastReport, reportingPeriod, clientConnected,
    poxInitialized, rawSensorInitialized,
    ax, ay, az, heartRate, spO2, temperature, irValue, redValue, fsrValue,
    forceTest, distanceTest, temperatureMode, qualityMode,
    buffer,     \* bytes of the stack slot that sendData uses for `buffer`
    now,        \* millis()
    log,        \* bus operations and notifications of the last handler
    lastEvent,  \* the handler that ran last, with its input
    scenario,   \* how far a disconnect / reconnect / re-entry has come
    given,      \* the label text of the last LABEL command taken, and when
    taken,      \* the DistanceTest samples taken since the last START
    race        \* where the callback task and the loop task are (SpecRace)

vars == << currentMode, tsLastReport, reportingPeriod, clientConnected,
           poxInitialized, rawSensorInitialized,
           ax, ay, az, heartRate, spO2, temperature, irValue, redValue, fsrValue,
           forceTest, distanceTest, temperatureMode, qualityMode,
           buffer, now, log, lastEvent, scenario, given, taken, race >>

----------------------------------------------------------------------------
(* Bounds of the exploration *)

\* clock advances (of one reporting period each) explored by the
\* session specification (SpecSession)
DistMaxAdvances == 9

\* clock advances explored by the ForceTest specification (SpecForce): the
\* collection duration is 20 reporting periods
ForceMaxAdvances == 22

\* clock advances explored by the batch specification (SpecBatch): two
\* batches of ten samples
BatchMaxAdvances == 19
TempMaxAdvances == 6

\* clock advances explored by the long-session specification (SpecLong):
\* one more than the values of a 16-bit counter
LongMaxAdvances == 65537

\* clock advances explored by the quality specification (SpecQuality)
QualMaxAdvances == 4

\* clock advances explored by the specification with fairness (SpecLive):
\* a collection duration after the last LABEL it accepts
LiveMaxAdvances == 22

----------------------------------------------------------------------------
(* Program constants *)

MODE_IDLE == 0
MODE_HR_SPO2 == 1
MODE_TEMPERATURE == 2
MODE_FORCE_TEST == 3
MODE_DISTANCE_TEST == 4
MODE_QUALITY == 5
MODE_RAW_DATA == 6

Modes == MODE_IDLE .. MODE_RAW_DATA

DefaultReportingPeriod == 500
LowHeapLimit == 30000
maxRetries == 3
DummyReads == 10
LabelSize == 16
LedSize == 8
collectionDuration == 10000
samplesPerBatch == 10
tempSamplingPeriod == 1000
SetupDelay == 1000
UINT16 == 65536

----------------------------------------------------------------------------
(* Text *)

S_MODE == <<"M","O","D","E",":">>
S_LABEL == <<"L","A","B","E","L",":">>
S_START == <<"S","T","A","R","T",":">>
S_STOP == <<"S","T","O","P">>
S_RESET == <<"R","E","S","E","T">>
S_STATUS == <<"S","T","A","T","U","S">>
S_IDLE == <<"I","D","L","E">>
S_HR_SPO2 == <<"H","R","_","S","P","O","2">>
S_TEMPERATURE == <<"T","E","M","P","E","R","A","T","U","R","E">>
S_FORCE_TEST == <<"F","O","R","C","E","_","T","E","S","T">>
S_DISTANCE_TEST == <<"D","I","S","T","A","N","C","E","_","T","E","S","T">>
S_QUALITY == <<"Q","U","A","L","I","T","Y">>
S_RAW_DATA == <<"R","A","W","_","D","A","T","A">>
S_waiting == <<"w","a","i","t","i","n","g">>
S_none == <<"n","o","n","e">>

modeNames == << S_IDLE, S_HR_SPO2, S_TEMPERATURE, S_FORCE_TEST,
                S_DISTANCE_TEST, S_QUALITY, S_RAW_DATA >>

Min(a, b) == IF a < b THEN a ELSE b

\* the text that starts at offset k of a C string (command + k)
From(str, k) == SubSeq(str, k + 1, Len(str))

\* strncmp(str, lit, n) == 0 with n = strlen(lit)
StrNCmpEq(str, lit) ==
    /\ Len(str) >= Len(lit)
    /\ SubSeq(str, 1, Len(lit)) = lit

\* strcmp(a, b) == 0
StrCmpEq(a, b) == a = b

\* strchr(str, ch) - str: the offset of the first ch in str, -1 for NULL
StrChr(str, ch) ==
    IF \E i \in 1..Len(str) : str[i] = ch
    THEN (CHOOSE i \in 1..Len(str) :
              /\ str[i] = ch
              /\ \A j \in 1..(i - 1) : str[j] # ch) - 1
    ELSE -1

Digits == <<"0","1","2","3","4","5","6","7","8","9">>
IsDigit(c) == \E i \in 1..10 : Digits[i] = c
DigitVal(c) == (CHOOSE i \in 1..10 : Digits[i] = c) - 1

RECURSIVE AtoiDigits(_, _)
AtoiDigits(str, acc) ==
    IF Len(str) = 0 \/ ~IsDigit(Head(str))
    THEN acc
    ELSE AtoiDigits(Tail(str), acc * 10 + DigitVal(Head(str)))

RECURSIVE SkipSpaces(_)
SkipSpaces(str) ==
    IF Len(str) > 0 /\ Head(str) = " " THEN SkipSpaces(Tail(str)) ELSE str

\* atoi: leading blanks, an optional sign, then digits up to the first
\* character that is not a digit; 0 when there is no digit
Atoi(str) ==
    LET t == SkipSpaces(str) IN
    IF Len(t) > 0 /\ Head(t) = "-" THEN 0 - AtoiDigits(Tail(t), 0)
    ELSE IF Len(t) > 0 /\ Head(t) = "+" THEN AtoiDigits(Tail(t), 0)
    ELSE AtoiDigits(t, 0)

\* the C string left in a char array of `size` bytes by
\*   strncpy(dest, src, size - 1); dest[size - 1] = '\0';
StrNCpyTerminated(src, size) == SubSeq(src, 1, Min(Len(src), size - 1))

\* C integer division (truncation towards zero)
TruncDiv(a, b) ==
    IF (a >= 0) = (b > 0) THEN (IF a >= 0 THEN a ELSE 0 - a) \div (IF b > 0 THEN b ELSE 0 - b)
    ELSE 0 - ((IF a >= 0 THEN a ELSE 0 - a) \div (IF b > 0 THEN b ELSE 0 - b))

Abs(x) == IF x < 0 THEN 0 - x ELSE x

\* the largest r in lo..hi with r * r <= n (lo * lo <= n), by bisection
RECURSIVE RootBetween(_, _, _)
RootBetween(n, lo, hi) ==
    IF lo >= hi THEN lo
    ELSE LET mid == (lo + hi + 1) \div 2 IN
         IF mid * mid <= n THEN RootBetween(n, mid, hi)
         ELSE RootBetween(n, lo, mid - 1)

\* floor of sqrt(x*x + y*y + z*z); the root is at most |x| + |y| + |z|
Magnitude(x, y, z) ==
    RootBetween(x * x + y * y + z * z, 0, Abs(x) + Abs(y) + Abs(z))

----------------------------------------------------------------------------
(* The record of the globals a handler works on *)

G == [ currentMode |-> currentMode, tsLastReport |-> tsLastReport,
       reportingPeriod |-> reportingPeriod, clientConnected |-> clientConnected,
       poxInitialized |-> poxInitialized,
       rawSensorInitialized |-> rawSensorInitialized,
       ax |-> ax, ay |-> ay, az |-> az, heartRate |-> heartRate, spO2 |-> spO2,
       temperature |-> temperature, irValue |-> irValue, redValue |-> redValue,
       fsrValue |-> fsrValue,
       forceTest |-> forceTest, distanceTest |-> distanceTest,
       temperatureMode |-> temperatureMode, qualityMode |-> qualityMode,
       buffer |-> buffer, now |-> now, log |-> << >> ]

Commit(s) ==
    /\ currentMode' = s.currentMode
    /\ tsLastReport' = s.tsLastReport
    /\ reportingPeriod' = s.reportingPeriod
    /\ clientConnected' = s.clientConnected
    /\ poxInitialized' = s.poxInitialized
    /\ rawSensorInitialized' = s.rawSensorInitialized
    /\ ax' = s.ax /\ ay' = s.ay /\ az' = s.az
    /\ heartRate' = s.heartRate /\ spO2' = s.spO2
    /\ temperature' = s.temperature
    /\ irValue' = s.irValue /\ redValue' = s.redValue
    /\ fsrValue' = s.fsrValue
    /\ forceTest' = s.forceTest
    /\ distanceTest' = s.distanceTest
    /\ temperatureMode' = s.temperatureMode
    /\ qualityMode' = s.qualityMode
    /\ buffer' = s.buffer
    /\ now' = s.now
    /\ log' = s.log

Logged(s, e) == [s EXCEPT !.log = Append(@, e)]

\* the entries of a log that record operation op
Ops(lg, op) == { i \in DOMAIN lg : lg[i].op = op }

\* the contents of a stack array that was never written
Indeterminate == [kind |-> "indeterminate"]

----------------------------------------------------------------------------
(* Utility functions *)

checkMemory(freeHeap) == ~(freeHeap < LowHeapLimit)

\* resetSensors() that shuts down only the sensor of the current mode
resetSensors_currentOnly(s) ==
    Logged(IF s.currentMode = MODE_HR_SPO2 \/ s.currentMode = MODE_QUALITY
           THEN [s EXCEPT !.poxInitialized = FALSE]
           ELSE [s EXCEPT !.rawSensorInitialized = FALSE],
           [op |-> "resetSensors"])

\* resetSensors() whose rawSensor shutdown does not clear its flag
resetSensors_keepsRaw(s) ==
    Logged([s EXCEPT !.poxInitialized = FALSE], [op |-> "resetSensors"])

resetSensors(s) ==
    Logged([s EXCEPT !.poxInitialized = FALSE,
                     !.rawSensorInitialized = FALSE],
           [op |-> "resetSensors"])

\* What the sensor does during one priming attempt: whether the first
\* begin() answers, the dummy read (1..10) after which more than 500 ms
\* have passed (0: none), and whether the final begin() answers.
PrimeReady == [begin |-> TRUE, timeoutAt |-> 0, ready |-> TRUE]
PrimeNoBegin == [begin |-> FALSE, timeoutAt |-> 0, ready |-> FALSE]
PrimeTimeout == [begin |-> TRUE, timeoutAt |-> 1, ready |-> FALSE]
PrimeNotReady == [begin |-> TRUE, timeoutAt |-> 0, ready |-> FALSE]

primeSensor(s, isPulseOximeter, outcome) ==
    LET reads == IF ~outcome.begin THEN 0
                 ELSE IF outcome.timeoutAt \in 1..DummyReads
                      THEN outcome.timeoutAt
                      ELSE DummyReads
        ok == /\ outcome.begin
              /\ outcome.timeoutAt \notin 1..DummyReads
              /\ outcome.ready
    IN [ s |-> Logged(s, [op |-> "primeSensor",
                          isPulseOximeter |-> isPulseOximeter,
                          reads |-> reads, ok |-> ok]),
         ok |-> ok ]

\* sendStatus() without its `if (!clientConnected) return`
sendStatus_noGuard(s, freeHeap) ==
    Logged(s, [op |-> "status", mode |-> modeNames[s.currentMode + 1],
               uptime |-> s.now, free_heap |-> freeHeap,
               connected |-> s.clientConnected])

sendStatus(s, freeHeap) ==
    IF ~s.clientConnected THEN s
    ELSE Logged(s, [op |-> "status", mode |-> modeNames[s.currentMode + 1],
                    uptime |-> s.now, free_heap |-> freeHeap,
                    connected |-> s.clientConnected])

onConnect(s, freeHeap) ==
    sendStatus([s EXCEPT !.clientConnected = TRUE], freeHeap)

\* onDisconnect() without `forceTest.isCollecting = false`
onDisconnect_keepsSession(s) ==
    LET r == resetSensors([s EXCEPT !.clientConnected = FALSE]) IN
    Logged([r EXCEPT !.currentMode = MODE_IDLE,
                     !.reportingPeriod = DefaultReportingPeriod,
                     !.tsLastReport = 0,
                     !.distanceTest.collectingData = FALSE,
                     !.temperatureMode.tempSamplingStarted = FALSE,
                     !.qualityMode.hasPreviousData = FALSE],
           [op |-> "startAdvertising"])

onDisconnect(s) ==
    LET r == resetSensors([s EXCEPT !.clientConnected = FALSE]) IN
    Logged([r EXCEPT !.currentMode = MODE_IDLE,
                     !.reportingPeriod = DefaultReportingPeriod,
                     !.tsLastReport = 0,
                     !.forceTest.isCollecting = FALSE,
                     !.distanceTest.collectingData = FALSE,
                     !.temperatureMode.tempSamplingStarted = FALSE,
                     !.qualityMode.hasPreviousData = FALSE],
           [op |-> "startAdvertising"])

RECURSIVE PulseOximeterRetries(_, _, _)
PulseOximeterRetries(s, retryCount, outcomes) ==
    IF retryCount < maxRetries
    THEN LET p == primeSensor(s, TRUE, outcomes[retryCount + 1]) IN
         IF p.ok
         THEN [s |-> [p.s EXCEPT !.poxInitialized = TRUE], ok |-> TRUE]
         ELSE PulseOximeterRetries(resetSensors(p.s), retryCount + 1, outcomes)
    ELSE [s |-> [s EXCEPT !.poxInitialized = FALSE], ok |-> FALSE]

\* initializePulseOximeter() without the resetSensors() before the loop
initializePulseOximeter_noReset(s, env) ==
    IF ~checkMemory(env.heap)
    THEN [s |-> s, ok |-> FALSE]
    ELSE PulseOximeterRetries(s, 0, env.prime)

initializePulseOximeter(s, env) ==
    IF ~checkMemory(env.heap)
    THEN [s |-> s, ok |-> FALSE]
    ELSE PulseOximeterRetries(resetSensors(s), 0, env.prime)

\* initializeRawSensor() priming a second time when the first attempt fails
initializeRawSensor_retriesOnce(s, env) ==
    IF ~checkMemory(env.heap)
    THEN [s |-> s, ok |-> FALSE]
    ELSE LET p == primeSensor(resetSensors(s), FALSE, env.prime[1])
             q == primeSensor(resetSensors(p.s), FALSE, env.prime[2])
         IN IF p.ok
            THEN [s |-> [p.s EXCEPT !.rawSensorInitialized = TRUE], ok |-> TRUE]
            ELSE [s |-> [q.s EXCEPT !.rawSensorInitialized = q.ok], ok |-> q.ok]

initializeRawSensor(s, env) ==
    IF ~checkMemory(env.heap)
    THEN [s |-> s, ok |-> FALSE]
    ELSE LET p == primeSensor(resetSensors(s), FALSE, env.prime[1]) IN
         IF ~p.ok
         THEN [s |-> [p.s EXCEPT !.rawSensorInitialized = FALSE], ok |-> FALSE]
         ELSE [s |-> [p.s EXCEPT !.rawSensorInitialized = TRUE], ok |-> TRUE]

initializeAccelerometer(s) == Logged(s, [op |-> "accel.begin"])

----------------------------------------------------------------------------
(* Mode switching and control *)

\* the chain of switchMode comparing with strncmp over the literal's length
resolveMode_prefix(modeName) ==
    IF StrNCmpEq(modeName, S_HR_SPO2) THEN MODE_HR_SPO2
    ELSE IF StrNCmpEq(modeName, S_TEMPERATURE) THEN MODE_TEMPERATURE
    ELSE IF StrNCmpEq(modeName, S_FORCE_TEST) THEN MODE_FORCE_TEST
    ELSE IF StrNCmpEq(modeName, S_DISTANCE_TEST) THEN MODE_DISTANCE_TEST
    ELSE IF StrNCmpEq(modeName, S_QUALITY) THEN MODE_QUALITY
    ELSE IF StrNCmpEq(modeName, S_RAW_DATA) THEN MODE_RAW_DATA
    ELSE MODE_IDLE

\* the strcmp chain of switchMode: the mode a name resolves to
resolveMode(modeName) ==
    IF StrCmpEq(modeName, S_HR_SPO2) THEN MODE_HR_SPO2
    ELSE IF StrCmpEq(modeName, S_TEMPERATURE) THEN MODE_TEMPERATURE
    ELSE IF StrCmpEq(modeName, S_FORCE_TEST) THEN MODE_FORCE_TEST
    ELSE IF StrCmpEq(modeName, S_DISTANCE_TEST) THEN MODE_DISTANCE_TEST
    ELSE IF StrCmpEq(modeName, S_QUALITY) THEN MODE_QUALITY
    ELSE IF StrCmpEq(modeName, S_RAW_DATA) THEN MODE_RAW_DATA
    ELSE IF StrCmpEq(modeName, S_IDLE) THEN MODE_IDLE
    ELSE MODE_IDLE

\* newReportingPeriod of switchMode: 500 in every branch
resolvePeriod(modeName) == DefaultReportingPeriod

\* needsPulseOx without MODE_QUALITY
needsPulseOx_withoutQuality(newMode) == newMode = MODE_HR_SPO2

needsPulseOx(newMode) == newMode = MODE_HR_SPO2 \/ newMode = MODE_QUALITY

needsRawSensor(newMode) ==
    \/ newMode = MODE_TEMPERATURE \/ newMode = MODE_FORCE_TEST
    \/ newMode = MODE_DISTANCE_TEST \/ newMode = MODE_RAW_DATA

needsAccel(newMode) ==
    newMode = MODE_HR_SPO2 \/ newMode = MODE_QUALITY \/ newMode = MODE_RAW_DATA

\* lines 430-454 initializing a variant only in place of the other one
switchSensors_onVariantChange(s, newMode, env) ==
    IF newMode = MODE_IDLE THEN resetSensors(s)
    ELSE LET s1 == IF needsPulseOx(newMode) /\ s.rawSensorInitialized
                   THEN initializePulseOximeter(resetSensors(s), env).s
                   ELSE IF needsRawSensor(newMode) /\ s.poxInitialized
                   THEN initializeRawSensor(resetSensors(s), env).s
                   ELSE s
         IN IF needsAccel(newMode) THEN initializeAccelerometer(s1) ELSE s1

\* lines 430-454 of switchMode: the sensors of the new mode
switchSensors(s, newMode, env) ==
    IF newMode = MODE_IDLE THEN resetSensors(s)
    ELSE LET s1 == IF needsPulseOx(newMode)
                   THEN initializePulseOximeter(
                            IF s.rawSensorInitialized THEN resetSensors(s) ELSE s,
                            env).s
                   ELSE IF needsRawSensor(newMode)
                   THEN initializeRawSensor(
                            IF s.poxInitialized THEN resetSensors(s) ELSE s,
                            env).s
                   ELSE s
         IN IF needsAccel(newMode) THEN initializeAccelerometer(s1) ELSE s1

\* lines 456-470 without the reset of the two quality counters
resetModeState_keepsCounters(s, newMode) ==
    IF newMode = MODE_FORCE_TEST
    THEN [s EXCEPT !.forceTest.isCollecting = FALSE,
                   !.forceTest.currentLabel = S_waiting]
    ELSE IF newMode = MODE_DISTANCE_TEST
    THEN [s EXCEPT !.distanceTest.collectingData = FALSE,
                   !.distanceTest.currentLED = S_none,
                   !.distanceTest.ledBytes = LedSize,
                   !.distanceTest.currentDistance = 0]
    ELSE IF newMode = MODE_TEMPERATURE
    THEN [s EXCEPT !.temperatureMode.tempSamplingStarted = FALSE,
                   !.temperatureMode.tsLastTempSample = 0]
    ELSE IF newMode = MODE_QUALITY
    THEN [s EXCEPT !.qualityMode.hasPreviousData = FALSE]
    ELSE s

\* lines 456-470 of switchMode: the mode-local state of the new mode
resetModeState(s, newMode) ==
    IF newMode = MODE_FORCE_TEST
    THEN [s EXCEPT !.forceTest.isCollecting = FALSE,
                   !.forceTest.currentLabel = S_waiting]
    ELSE IF newMode = MODE_DISTANCE_TEST
    THEN [s EXCEPT !.distanceTest.collectingData = FALSE,
                   !.distanceTest.currentLED = S_none,
                   !.distanceTest.ledBytes = LedSize,
                   !.distanceTest.currentDistance = 0]
    ELSE IF newMode = MODE_TEMPERATURE
    THEN [s EXCEPT !.temperatureMode.tempSamplingStarted = FALSE,
                   !.temperatureMode.tsLastTempSample = 0]
    ELSE IF newMode = MODE_QUALITY
    THEN [s EXCEPT !.qualityMode.hasPreviousData = FALSE,
                   !.qualityMode.totalSamples = 0,
                   !.qualityMode.goodQualitySamples = 0]
    ELSE s

\* switchMode() without the `newMode == currentMode` return
switchMode_noEarlyReturn(s, modeName, env) ==
    LET newMode == resolveMode(modeName)
        newReportingPeriod == resolvePeriod(modeName)
    IN resetModeState(
           switchSensors([s EXCEPT !.currentMode = newMode,
                                   !.reportingPeriod = newReportingPeriod,
                                   !.tsLastReport = 0],
                         newMode, env),
           newMode)

\* switchMode() without `tsLastReport = 0`
switchMode_keepsTimer(s, modeName, env) ==
    LET newMode == resolveMode(modeName)
        newReportingPeriod == resolvePeriod(modeName)
    IN IF newMode = s.currentMode THEN s
       ELSE resetModeState(
                switchSensors([s EXCEPT !.currentMode = newMode,
                                        !.reportingPeriod = newReportingPeriod],
                              newMode, env),
                newMode)

switchMode(s, modeName, env) ==
    LET newMode == resolveMode(modeName)
        newReportingPeriod == resolvePeriod(modeName)
    IN IF newMode = s.currentMode THEN s
       ELSE resetModeState(
                switchSensors([s EXCEPT !.currentMode = newMode,
                                        !.reportingPeriod = newReportingPeriod,
                                        !.tsLastReport = 0],
                              newMode, env),
                newMode)

\* the LABEL: branch without `if (currentMode == MODE_FORCE_TEST)`
startForceTest_anyMode(s, text) ==
    [s EXCEPT !.forceTest.currentLabel = StrNCpyTerminated(text, LabelSize),
              !.forceTest.isCollecting = TRUE,
              !.forceTest.collectionStartTime = s.now]

\* a LABEL: branch that keeps the window of a session already collecting
startForceTest_keepsWindow(s, text) ==
    IF s.currentMode = MODE_FORCE_TEST
    THEN [s EXCEPT !.forceTest.currentLabel = StrNCpyTerminated(text, LabelSize),
                   !.forceTest.isCollecting = TRUE,
                   !.forceTest.collectionStartTime =
                       IF s.forceTest.isCollecting THEN @ ELSE s.now]
    ELSE s

\* the LABEL: branch
startForceTest(s, text) ==
    IF s.currentMode = MODE_FORCE_TEST
    THEN [s EXCEPT !.forceTest.currentLabel = StrNCpyTerminated(text, LabelSize),
                   !.forceTest.isCollecting = TRUE,
                   !.forceTest.collectionStartTime = s.now]
    ELSE s

\* the START: branch.  With a colon the identifier is copied with
\* strncpy(currentLED, arg, colon - arg) and terminated at that offset
\* (ledBytes: the number of bytes written, terminator included); without
\* one it is cut to the size of the array.  A copy longer than the array
\* writes past it: what currentLED then reads as, and what else was
\* overwritten, is not determined.
startDistanceTest(s, arg) ==
    IF s.currentMode = MODE_DISTANCE_TEST
    THEN LET colon == StrChr(arg, ":")
             s1 == IF colon >= 0
                   THEN [s EXCEPT !.distanceTest.currentLED =
                                      IF colon + 1 <= LedSize
                                      THEN SubSeq(arg, 1, colon)
                                      ELSE Indeterminate,
                                  !.distanceTest.ledBytes = colon + 1,
                                  !.distanceTest.currentDistance =
                                      Atoi(From(arg, colon + 1))]
                   ELSE [s EXCEPT !.distanceTest.currentLED =
                                      StrNCpyTerminated(arg, LedSize),
                                  !.distanceTest.ledBytes = LedSize,
                                  !.distanceTest.currentDistance = 0]
         IN [s1 EXCEPT !.distanceTest.collectingData = TRUE,
                       !.distanceTest.sampleCount = 0,
                       !.distanceTest.irSum = 0,
                       !.distanceTest.redSum = 0]
    ELSE s

\* a STOP branch that closes both kinds of session whatever the mode
stopCollection_everySession(s) ==
    [s EXCEPT !.forceTest.isCollecting = FALSE,
              !.forceTest.currentLabel = S_waiting,
              !.distanceTest.collectingData = FALSE]

\* the STOP branch
stopCollection(s) ==
    IF s.currentMode = MODE_FORCE_TEST
    THEN [s EXCEPT !.forceTest.isCollecting = FALSE,
                   !.forceTest.currentLabel = S_waiting]
    ELSE IF s.currentMode = MODE_DISTANCE_TEST
    THEN [s EXCEPT !.distanceTest.collectingData = FALSE]
    ELSE s

\* the dispatch of handleControlCommand, before its final sendStatus()
dispatchCommand(s, command, env) ==
    IF StrNCmpEq(command, S_MODE) THEN switchMode(s, From(command, 5), env)
    ELSE IF StrNCmpEq(command, S_LABEL) THEN startForceTest(s, From(command, 6))
    ELSE IF StrNCmpEq(command, S_START) THEN startDistanceTest(s, From(command, 6))
    ELSE IF StrCmpEq(command, S_STOP) THEN stopCollection(s)
    ELSE IF StrCmpEq(command, S_RESET) THEN resetSensors(s)
    ELSE IF StrCmpEq(command, S_STATUS) THEN sendStatus(s, env.reported)
    ELSE s

\* handleControlCommand() sending the status before it handles the command
handleControlCommand_statusFirst(s, command, env) ==
    dispatchCommand(sendStatus(s, env.reported), command, env)

handleControlCommand(s, command, env) ==
    sendStatus(dispatchCommand(s, command, env), env.reported)

----------------------------------------------------------------------------
(* Sensor reading *)

\* a + b in uint32_t arithmetic, for operands whose sum is below 2^31 (the
\* explored clock values, sums and counters all are)
AddU32(a, b) == a + b

\* millis() - t in uint32_t arithmetic, for t a copy of an earlier clock
\* value or 0, so that no borrow occurs
Elapsed(s, t) == s.now - t

\* the temperature branch without `if (!temperatureMode.tempSamplingStarted)`
readTemperature_restarts(s, sample) ==
    LET s1 == IF Elapsed(s, s.temperatureMode.tsLastTempSample) > tempSamplingPeriod
              THEN Logged([s EXCEPT !.temperatureMode.tempSamplingStarted = TRUE,
                                    !.temperatureMode.tsLastTempSample = s.now],
                          [op |-> "startTemperatureSampling"])
              ELSE s
    IN IF s1.temperatureMode.tempSamplingStarted /\ sample.tempReady
       THEN [s1 EXCEPT !.temperature = sample.temperature,
                       !.temperatureMode.tempSamplingStarted = FALSE]
       ELSE s1

\* the temperature branch of readSensorData (raw sensor live, mode
\* TEMPERATURE); sample.tempReady is isTemperatureReady()
readTemperature(s, sample) ==
    LET s1 == IF /\ Elapsed(s, s.temperatureMode.tsLastTempSample) > tempSamplingPeriod
                 /\ ~s.temperatureMode.tempSamplingStarted
              THEN Logged([s EXCEPT !.temperatureMode.tempSamplingStarted = TRUE,
                                    !.temperatureMode.tsLastTempSample = s.now],
                          [op |-> "startTemperatureSampling"])
              ELSE s
    IN IF s1.temperatureMode.tempSamplingStarted /\ sample.tempReady
       THEN [s1 EXCEPT !.temperature = sample.temperature,
                       !.temperatureMode.tempSamplingStarted = FALSE]
       ELSE s1

\* readSensorData() whose pulse oximeter branch lacks the `poxInitialized &&`
readSensorData_unguarded(s, sample) ==
    LET s1 == [s EXCEPT !.ax = sample.ax, !.ay = sample.ay, !.az = sample.az]
        s2 == IF s1.currentMode = MODE_HR_SPO2 \/ s1.currentMode = MODE_QUALITY
              THEN Logged([s1 EXCEPT !.heartRate = sample.hr, !.spO2 = sample.spo2],
                          [op |-> "pox.update"])
              ELSE s1
        s3 == IF s2.rawSensorInitialized
              THEN LET r == Logged([s2 EXCEPT !.irValue = sample.ir,
                                              !.redValue = sample.red],
                                   [op |-> "rawSensor.update"])
                   IN IF r.currentMode = MODE_TEMPERATURE
                      THEN readTemperature(r, sample)
                      ELSE r
              ELSE s2
    IN IF s3.currentMode = MODE_FORCE_TEST
       THEN [s3 EXCEPT !.fsrValue = sample.fsr]
       ELSE s3

readSensorData(s, sample) ==
    LET s1 == [s EXCEPT !.ax = sample.ax, !.ay = sample.ay, !.az = sample.az]
        s2 == IF /\ s1.poxInitialized
                 /\ (s1.currentMode = MODE_HR_SPO2 \/ s1.currentMode = MODE_QUALITY)
              THEN Logged([s1 EXCEPT !.heartRate = sample.hr, !.spO2 = sample.spo2],
                          [op |-> "pox.update"])
              ELSE s1
        s3 == IF s2.rawSensorInitialized
              THEN LET r == Logged([s2 EXCEPT !.irValue = sample.ir,
                                              !.redValue = sample.red],
                                   [op |-> "rawSensor.update"])
                   IN IF r.currentMode = MODE_TEMPERATURE
                      THEN readTemperature(r, sample)
                      ELSE r
              ELSE s2
    IN IF s3.currentMode = MODE_FORCE_TEST
       THEN [s3 EXCEPT !.fsrValue = sample.fsr]
       ELSE s3

----------------------------------------------------------------------------
(* Quality assessment *)

model_coefficients == << 2759, 3931, 169, -1874, -2038, -4785 >>
model_intercept == 2335
scaler_mean == << -1251, 27550, 992, 2451, 863, 51 >>
scaler_scale == << 11711, 17091, 111, 5410, 8871, 127 >>
NUM_FEATURES == 6
SCALE_FACTOR == 1000

\* (int32_t)(features[i] * SCALE_FACTOR): the features are in thousandths
RECURSIVE predictScore(_, _, _)
predictScore(features, i, score) ==
    IF i > NUM_FEATURES THEN score
    ELSE LET scaled_feature ==
                 TruncDiv((features[i] - scaler_mean[i]) * SCALE_FACTOR,
                          scaler_scale[i])
         IN predictScore(features, i + 1,
                score + TruncDiv(scaled_feature * model_coefficients[i],
                                 SCALE_FACTOR))

predict_quality(features) ==
    IF predictScore(features, 1, model_intercept) > 0 THEN 1 ELSE 0

\* the six features assess_sensor_quality builds from its arguments
qualityFeatures(hr, spo2, x, y, z, hr_prev, spo2_prev, accel_prev) ==
    LET accel_mag == Magnitude(x, y, z) IN
    << hr, spo2, accel_mag,
       Abs(hr - hr_prev), Abs(spo2 - spo2_prev), Abs(accel_mag - accel_prev) >>

assess_sensor_quality(hr, spo2, x, y, z, hr_prev, spo2_prev, accel_prev) ==
    predict_quality(qualityFeatures(hr, spo2, x, y, z,
                                    hr_prev, spo2_prev, accel_prev))

\* the arguments assessDataQuality passes to assess_sensor_quality
qualityArguments(s) ==
    << s.heartRate, s.spO2, s.ax, s.ay, s.az,
       Abs(s.heartRate - s.qualityMode.previousHeartRate),
       Abs(s.spO2 - s.qualityMode.previousSpO2),
       s.qualityMode.previousAccelMag >>

\* assessDataQuality() without the `if (!qualityMode.hasPreviousData)` branch
assessDataQuality_alwaysClassifies(s) ==
    LET a == qualityArguments(s) IN
    [ s |-> [s EXCEPT !.qualityMode.hasPreviousData = TRUE,
                      !.qualityMode.previousHeartRate = s.heartRate,
                      !.qualityMode.previousSpO2 = s.spO2,
                      !.qualityMode.previousAccelMag =
                          Magnitude(s.ax, s.ay, s.az)],
      quality |-> assess_sensor_quality(a[1], a[2], a[3], a[4], a[5],
                                        a[6], a[7], a[8]),
      features |-> qualityFeatures(a[1], a[2], a[3], a[4], a[5],
                                   a[6], a[7], a[8]) ]

assessDataQuality(s) ==
    IF ~s.qualityMode.hasPreviousData
    THEN [ s |-> [s EXCEPT !.qualityMode.hasPreviousData = TRUE,
                           !.qualityMode.previousHeartRate = s.heartRate,
                           !.qualityMode.previousSpO2 = s.spO2,
                           !.qualityMode.previousAccelMag =
                               Magnitude(s.ax, s.ay, s.az)],
           quality |-> 1, features |-> << >> ]
    ELSE LET a == qualityArguments(s) IN
         [ s |-> [s EXCEPT !.qualityMode.previousHeartRate = s.heartRate,
                           !.qualityMode.previousSpO2 = s.spO2,
                           !.qualityMode.previousAccelMag =
                               Magnitude(s.ax, s.ay, s.az)],
           quality |-> assess_sensor_quality(a[1], a[2], a[3], a[4], a[5],
                                             a[6], a[7], a[8]),
           features |-> qualityFeatures(a[1], a[2], a[3], a[4], a[5],
                                        a[6], a[7], a[8]) ]

----------------------------------------------------------------------------
(* Data transmission *)

\* n / d rounded to the nearest integer (the digits printf keeps)
RoundDiv(n, d) == (2 * n + d) \div (2 * d)

\* snprintf(buffer, ...) followed by setValue / notify
notifyData(s, payload) ==
    Logged([s EXCEPT !.buffer = payload],
           [op |-> "data", payload |-> payload, written |-> TRUE,
            connected |-> s.clientConnected])

\* setValue / notify of a buffer no branch has written: the bytes are
\* whatever the stack slot holds, the previous payload or anything else
notifyUnwritten(s, uninit) ==
    Logged(s, [op |-> "data",
               payload |-> IF uninit = "stale" THEN s.buffer ELSE Indeterminate,
               written |-> FALSE, connected |-> s.clientConnected])

\* the ForceTest branch of sendData() without the `return` of the expiry
sendForceTest_noReturn(s) ==
    LET s1 == IF /\ s.forceTest.isCollecting
                 /\ Elapsed(s, s.forceTest.collectionStartTime) >= collectionDuration
              THEN [s EXCEPT !.forceTest.isCollecting = FALSE,
                             !.forceTest.currentLabel = S_waiting]
              ELSE s
    IN notifyData(s1, [kind |-> "force", ir |-> s1.irValue, red |-> s1.redValue,
                       fsr |-> s1.fsrValue, label |-> s1.forceTest.currentLabel,
                       collecting |-> s1.forceTest.isCollecting,
                       timestamp |-> s1.now])

sendForceTest(s) ==
    IF /\ s.forceTest.isCollecting
       /\ Elapsed(s, s.forceTest.collectionStartTime) >= collectionDuration
    THEN [s EXCEPT !.forceTest.isCollecting = FALSE,
                   !.forceTest.currentLabel = S_waiting]
    ELSE notifyData(s, [kind |-> "force", ir |-> s.irValue, red |-> s.redValue,
                        fsr |-> s.fsrValue, label |-> s.forceTest.currentLabel,
                        collecting |-> s.forceTest.isCollecting,
                        timestamp |-> s.now])

sendDistanceTest(s, uninit) ==
    IF s.distanceTest.collectingData
    THEN LET d == [s.distanceTest EXCEPT
                      !.irSum = AddU32(@, s.irValue),
                      !.redSum = AddU32(@, s.redValue),
                      !.sampleCount = (@ + 1) % UINT16]
             s1 == [s EXCEPT !.distanceTest = d]
         IN IF d.sampleCount % samplesPerBatch = 0
            THEN IF d.sampleCount = 0
                 THEN notifyData(s1, [kind |-> "average", led |-> d.currentLED,
                                      distance_mm |-> d.currentDistance,
                                      avg_ir |-> "inf_or_nan", avg_red |-> "inf_or_nan",
                                      samples |-> d.sampleCount,
                                      timestamp |-> s.now])
                 ELSE notifyData(s1, [kind |-> "average", led |-> d.currentLED,
                                      distance_mm |-> d.currentDistance,
                                      avg_ir |-> RoundDiv(d.irSum * 100, d.sampleCount),
                                      avg_red |-> RoundDiv(d.redSum * 100, d.sampleCount),
                                      samples |-> d.sampleCount,
                                      timestamp |-> s.now])
            ELSE notifyUnwritten(s1, uninit)
    ELSE notifyData(s, [kind |-> "distance", ir |-> s.irValue, red |-> s.redValue,
                        led |-> s.distanceTest.currentLED,
                        distance_mm |-> s.distanceTest.currentDistance,
                        collecting |-> s.distanceTest.collectingData,
                        timestamp |-> s.now])

sendQuality(s) ==
    LET a == assessDataQuality(s)
        total == AddU32(a.s.qualityMode.totalSamples, 1)
        good == IF a.quality > 0
                THEN AddU32(a.s.qualityMode.goodQualitySamples, 1)
                ELSE a.s.qualityMode.goodQualitySamples
        s1 == [a.s EXCEPT !.qualityMode.totalSamples = total,
                          !.qualityMode.goodQualitySamples = good]
    IN notifyData(Logged(s1, [op |-> "assessDataQuality",
                              features |-> a.features]),
                  [kind |-> "quality", hr |-> s.heartRate, spo2 |-> s.spO2,
                   ax |-> s.ax, ay |-> s.ay, az |-> s.az,
                   quality |-> a.quality,
                   quality_percent |->
                       IF total > 0 THEN RoundDiv(good * 1000, total) ELSE 0,
                   accel_mag |-> Magnitude(s.ax, s.ay, s.az),
                   timestamp |-> s.now])

sendData(s, env) ==
    IF ~s.clientConnected THEN s
    ELSE IF s.currentMode = MODE_HR_SPO2
    THEN notifyData(s, [kind |-> "hr_spo2", hr |-> s.heartRate, spo2 |-> s.spO2,
                        ax |-> s.ax, ay |-> s.ay, az |-> s.az,
                        timestamp |-> s.now])
    ELSE IF s.currentMode = MODE_TEMPERATURE
    THEN notifyData(s, [kind |-> "temperature", temperature |-> s.temperature,
                        timestamp |-> s.now])
    ELSE IF s.currentMode = MODE_FORCE_TEST THEN sendForceTest(s)
    ELSE IF s.currentMode = MODE_DISTANCE_TEST THEN sendDistanceTest(s, env.uninit)
    ELSE IF s.currentMode = MODE_QUALITY THEN sendQuality(s)
    ELSE IF s.currentMode = MODE_RAW_DATA
    THEN notifyData(s, [kind |-> "raw_data", hr |-> s.heartRate, spo2 |-> s.spO2,
                        ir |-> s.irValue, red |-> s.redValue,
                        ax |-> s.ax, ay |-> s.ay, az |-> s.az,
                        timestamp |-> s.now])
    ELSE notifyData(s, [kind |-> "idle", uptime |-> s.now,
                        free_heap |-> env.reported])

\* one iteration of loop()
loop(s, sample, env) ==
    LET s1 == readSensorData(s, sample) IN
    IF Elapsed(s1, s1.tsLastReport) >= s1.reportingPeriod
    THEN [sendData(s1, env) EXCEPT !.tsLastReport = s1.now]
    ELSE s1

----------------------------------------------------------------------------
(* Inputs *)

\* ESP.getFreeHeap() as read by checkMemory (just below and at its limit)
\* and as read for a status or idle payload
FreeHeapValues == {LowHeapLimit - 1, LowHeapLimit}
ReportedHeapValues == {LowHeapLimit}

PrimeOutcomes == {PrimeReady, PrimeNoBegin, PrimeTimeout, PrimeNotReady}

\* the outcomes of the (up to three) priming attempts of one command: the
\* first success after 0, 1 or 2 failures, or 3 failures
AllReady == << PrimeReady, PrimeReady, PrimeReady >>
AllFailing == << PrimeNotReady, PrimeNoBegin, PrimeTimeout >>
PrimeSeqs == { AllReady,
               << PrimeNoBegin, PrimeReady, PrimeReady >>,
               << PrimeTimeout, PrimeNotReady, PrimeReady >>,
               AllFailing }

\* contents of an unwritten buffer
UninitChoices == {"stale", "garbage"}

S_idle == <<"i","d","l","e">>
S_HR == <<"H","R">>
S_rest == <<"r","e","s","t">>
S_long_label == <<"l","i","g","h","t","_","p","r","e","s","s","_","l","e","f","t","_","2">>
S_red_10 == <<"r","e","d",":","1","0">>
S_ir == <<"i","r">>
S_ambient_light == <<"a","m","b","i","e","n","t","_","l","i","g","h","t">>
S_PING == <<"P","I","N","G">>
S_MODE_bare == <<"M","O","D","E">>

KnownModeNames == { S_IDLE, S_HR_SPO2, S_TEMPERATURE, S_FORCE_TEST,
                    S_DISTANCE_TEST, S_QUALITY, S_RAW_DATA }
UnknownModeNames == { S_idle, << >> }
ModeNameInputs == KnownModeNames \cup UnknownModeNames

LabelInputs == { S_long_label }
StartInputs == { S_red_10 }

OtherCommands ==
    { S_LABEL \o l : l \in LabelInputs } \cup
    { S_START \o a : a \in StartInputs } \cup
    { S_STOP, S_RESET, S_STATUS, S_MODE_bare }

\* one reading of every sensor
SampleA == [ ax |-> 0, ay |-> 0, az |-> 1000, hr |-> 72000, spo2 |-> 98000,
             ir |-> 3, red |-> 5, fsr |-> 100,
             temperature |-> 36500, tempReady |-> TRUE ]
SampleB == [ ax |-> 300, ay |-> 400, az |-> 0, hr |-> 0, spo2 |-> 0,
             ir |-> 4, red |-> 5, fsr |-> 0,
             temperature |-> 25000, tempReady |-> FALSE ]
SampleZero == [ ax |-> 0, ay |-> 0, az |-> 0, hr |-> 0, spo2 |-> 0,
                ir |-> 0, red |-> 0, fsr |-> 0,
                temperature |-> 0, tempReady |-> TRUE ]
Samples == { SampleZero }

\* the clock is observed once per reporting period
TimeStep == DefaultReportingPeriod

----------------------------------------------------------------------------
(* The state after setup() *)

\* A disconnect during a session of the current mode, then a reconnect, a
\* MODE command re-entering that mode, a new LABEL or START, and the samples
\* of the new session up to its first average payload.
NoScenario == [ phase |-> "none", mode |-> MODE_IDLE, since |-> 0 ]

NothingGiven == [ label |-> << >>, start |-> 0, first |-> 0 ]
NothingTaken == [ count |-> 0, ir |-> 0, red |-> 0, fresh |-> FALSE ]

\* what a reader of the shared globals sees of a transition
Combination(s) ==
    [ mode |-> s.currentMode, pox |-> s.poxInitialized,
      raw |-> s.rawSensorInitialized, period |-> s.reportingPeriod ]

\* no callback in progress, loop() between two iterations
BothIdle ==
    LET boot == [ mode |-> MODE_IDLE, pox |-> FALSE, raw |-> FALSE,
                  period |-> DefaultReportingPeriod ]
    IN [ cb |-> "idle", name |-> << >>,
         env |-> [ heap |-> LowHeapLimit, prime |-> AllReady,
                   reported |-> LowHeapLimit ],
         around |-> << boot, boot >>,
         tick |-> "idle", pox |-> FALSE, raw |-> FALSE,
         snap |-> boot, legit |-> { boot } ]

Init ==
    /\ currentMode = MODE_IDLE
    /\ tsLastReport = 0
    /\ reportingPeriod = DefaultReportingPeriod
    /\ clientConnected = FALSE
    /\ poxInitialized = FALSE
    /\ rawSensorInitialized = FALSE
    /\ ax = 0 /\ ay = 0 /\ az = 0
    /\ heartRate = 0 /\ spO2 = 0 /\ temperature = 0
    /\ irValue = 0 /\ redValue = 0 /\ fsrValue = 0
    /\ forceTest = [ currentLabel |-> S_waiting, isCollecting |-> FALSE,
                     collectionStartTime |-> 0 ]
    /\ distanceTest = [ currentLED |-> S_none, ledBytes |-> LedSize,
                        currentDistance |-> 0, collectingData |-> FALSE,
                        irSum |-> 0, redSum |-> 0, sampleCount |-> 0 ]
    /\ temperatureMode = [ tempSamplingStarted |-> FALSE, tsLastTempSample |-> 0 ]
    /\ qualityMode = [ previousHeartRate |-> 0, previousSpO2 |-> 0,
                       previousAccelMag |-> 0, hasPreviousData |-> FALSE,
                       totalSamples |-> 0, goodQualitySamples |-> 0 ]
    /\ buffer = Indeterminate
    /\ now = SetupDelay
    /\ log = << >>
    /\ lastEvent = [ type |-> "setup" ]
    /\ scenario = NoScenario
    /\ given = NothingGiven
    /\ taken = NothingTaken
    /\ race = BothIdle

----------------------------------------------------------------------------
(* Events *)

Envs(heaps, primes) ==
    { [ heap |-> h, prime |-> p, reported |-> r ] :
        h \in heaps, p \in primes, r \in ReportedHeapValues }

ModeEnvs == Envs(FreeHeapValues, PrimeSeqs)
PlainEnvs == Envs({LowHeapLimit}, {AllReady})
LoopEnvs == { [ reported |-> r, uninit |-> u ] :
                r \in ReportedHeapValues, u \in UninitChoices }

InSession(s) ==
    \/ s.currentMode = MODE_FORCE_TEST /\ s.forceTest.isCollecting
    \/ s.currentMode = MODE_DISTANCE_TEST /\ s.distanceTest.collectingData

Averages(lg) == { i \in Ops(lg, "data") : lg[i].payload.kind = "average" }

follow(sc, event, s, r) ==
    IF event.type = "disconnect"
    THEN IF InSession(s)
         THEN [ phase |-> "dropped", mode |-> s.currentMode, since |-> 0 ]
         ELSE NoScenario
    ELSE IF event.type = "connect"
    THEN IF sc.phase = "dropped" THEN [sc EXCEPT !.phase = "reconnected"]
         ELSE NoScenario
    ELSE IF event.type = "command"
    THEN IF sc.phase = "reconnected" /\ event.command = S_MODE \o modeNames[sc.mode + 1]
         THEN [sc EXCEPT !.phase = "reentered"]
         ELSE IF /\ sc.phase = "reentered"
                 /\ \/ StrNCmpEq(event.command, S_LABEL)
                    \/ StrNCmpEq(event.command, S_START)
         THEN [sc EXCEPT !.phase = "started"]
         ELSE NoScenario
    ELSE IF sc.phase = "started"
    THEN LET n == IF r.distanceTest.sampleCount # s.distanceTest.sampleCount
                  THEN sc.since + 1 ELSE sc.since
         IN [sc EXCEPT !.since = n,
                       !.phase = IF Averages(r.log) # {} THEN "averaged" ELSE @]
    ELSE IF sc.phase = "averaged" THEN NoScenario
    ELSE sc

\* the current mode is not IDLE and the optical variant switchMode
\* initializes for it is not live
Broken(s) ==
    \/ needsPulseOx(s.currentMode) /\ ~s.poxInitialized
    \/ needsRawSensor(s.currentMode) /\ ~s.rawSensorInitialized

\* A mode left without its sensor, then MODE:IDLE, then a MODE command
\* naming that mode again during which a priming attempt succeeds (loop
\* iterations may run in between).
recovery(sc, event, s, r) ==
    IF /\ event.type = "command" /\ sc.phase = "broken"
       /\ event.command = S_MODE \o S_IDLE
    THEN [sc EXCEPT !.phase = "idled"]
    ELSE IF /\ event.type = "command" /\ sc.phase = "idled"
            /\ event.command = S_MODE \o modeNames[sc.mode + 1]
            /\ \E i \in Ops(r.log, "primeSensor") : r.log[i].ok
    THEN [sc EXCEPT !.phase = "recovered"]
    ELSE IF event.type = "loop" /\ sc.phase = "idled" THEN sc
    ELSE IF Broken(r)
    THEN [ phase |-> "broken", mode |-> r.currentMode, since |-> 0 ]
    ELSE NoScenario

\* the text a client gave with LABEL while in ForceTest, the clock then,
\* and the clock at the LABEL that opened the session it found collecting
noteLabel(gv, event, s) ==
    IF /\ event.type = "command"
       /\ StrNCmpEq(event.command, S_LABEL)
       /\ s.currentMode = MODE_FORCE_TEST
    THEN [ label |-> From(event.command, 6), start |-> s.now,
           first |-> IF s.forceTest.isCollecting THEN gv.first ELSE s.now ]
    ELSE gv

\* the samples a DistanceTest session has taken since its START: their
\* number, the sums of their readings, and whether the last event took one
noteSamples(tk, event, s, r) ==
    IF /\ event.type = "command"
       /\ StrNCmpEq(event.command, S_START)
       /\ s.currentMode = MODE_DISTANCE_TEST
    THEN NothingTaken
    ELSE IF /\ event.type = "loop"
            /\ s.clientConnected
            /\ s.currentMode = MODE_DISTANCE_TEST
            /\ s.distanceTest.collectingData
            /\ r.tsLastReport = s.now /\ s.tsLastReport # s.now
    THEN [ count |-> tk.count + 1, ir |-> tk.ir + r.irValue,
           red |-> tk.red + r.redValue, fresh |-> TRUE ]
    ELSE [tk EXCEPT !.fresh = FALSE]

\* the QUALITY payloads sent since the last entry into QUALITY, and
\* whether the last event was that entry
noteQuality(tk, event, s, r) ==
    IF /\ event.type = "command"
       /\ s.currentMode # MODE_QUALITY /\ r.currentMode = MODE_QUALITY
    THEN [NothingTaken EXCEPT !.fresh = TRUE]
    ELSE [tk EXCEPT !.fresh = FALSE,
                    !.count = @ + Cardinality({ i \in Ops(r.log, "data") :
                                    r.log[i].payload.kind = "quality" })]

Observe(watch, event, r) ==
    /\ lastEvent' = event
    /\ scenario' = IF watch = "scenario" THEN follow(scenario, event, G, r)
                    ELSE IF watch = "recover" THEN recovery(scenario, event, G, r)
                    ELSE scenario
    /\ given' = IF watch = "label" THEN noteLabel(given, event, G) ELSE given
    /\ taken' = IF watch = "samples" THEN noteSamples(taken, event, G, r)
                 ELSE IF watch = "quality" THEN noteQuality(taken, event, G, r)
                 ELSE taken
    /\ race' = race

\* ServerCallbacks::onConnect
Connect(watch) ==
    /\ ~clientConnected
    /\ \E reported \in ReportedHeapValues :
          LET r == onConnect(G, reported) IN
          Commit(r) /\ Observe(watch, [ type |-> "connect" ], r)

\* ServerCallbacks::onDisconnect
Disconnect(watch) ==
    /\ clientConnected
    /\ LET r == onDisconnect(G) IN
       Commit(r) /\ Observe(watch, [ type |-> "disconnect" ], r)

\* ControlCallbacks::onWrite (a write needs a connection)
Command(watch, commands, envs) ==
    /\ clientConnected
    /\ \E command \in commands, env \in envs :
          LET r == handleControlCommand(G, command, env) IN
          /\ Commit(r)
          /\ Observe(watch, [ type |-> "command", command |-> command ], r)

\* one iteration of loop()
Loop(watch, samples) ==
    \E sample \in samples, env \in LoopEnvs :
        LET r == loop(G, sample, env) IN
        Commit(r) /\ Observe(watch, [ type |-> "loop" ], r)

\* time passes: the clock is at most limit afterwards. loop() iterates
\* every few milliseconds, so a report that is due is made before a whole
\* reporting period has gone by
AdvanceTime(limit) ==
    /\ now + TimeStep <= limit
    /\ Elapsed(G, tsLastReport) < reportingPeriod
    /\ now' = now + TimeStep
    /\ log' = << >>
    /\ lastEvent' = [ type |-> "time" ]
    /\ UNCHANGED << currentMode, tsLastReport, reportingPeriod, clientConnected,
                    poxInitialized, rawSensorInitialized,
                    ax, ay, az, heartRate, spO2, temperature,
                    irValue, redValue, fsrValue,
                    forceTest, distanceTest, temperatureMode, qualityMode,
                    buffer, scenario, given, taken, race >>

----------------------------------------------------------------------------
(* Spec: every command, connection event and loop iteration, in any order, *)
(* at one clock reading (a report is due after setup, after every mode     *)
(* switch and after every disconnect, which zero tsLastReport).            *)

ModeCommand == Command("nothing", { S_MODE \o name : name \in ModeNameInputs }, ModeEnvs)
OtherCommand == Command("nothing", OtherCommands, PlainEnvs)
LoopIteration == Loop("nothing", Samples)

Next ==
    \/ Connect("nothing")
    \/ Disconnect("nothing")
    \/ ModeCommand
    \/ OtherCommand
    \/ LoopIteration

Spec == Init /\ [][Next]_vars

----------------------------------------------------------------------------
(* SpecSession: ForceTest and DistanceTest sessions over several reporting *)
(* periods, with disconnects and reconnects.                               *)

SessionCommands ==
    { S_MODE \o S_FORCE_TEST, S_MODE \o S_DISTANCE_TEST,
      S_LABEL \o S_rest, S_START \o S_red_10 }

SessionSamples == { SampleA }

SessionCommand == Command("scenario", SessionCommands, PlainEnvs)
SessionLoop == Loop("scenario", SessionSamples)
SessionTime == AdvanceTime(SetupDelay + DistMaxAdvances * TimeStep)

NextSession ==
    \/ Connect("scenario")
    \/ Disconnect("scenario")
    \/ SessionCommand
    \/ SessionLoop
    \/ SessionTime

SpecSession == Init /\ [][NextSession]_vars

----------------------------------------------------------------------------
(* SpecForce: ForceTest sessions of one connection, from LABEL to past the *)
(* collection duration, with STOP, new labels and mode changes.            *)

ForceCommands ==
    { S_MODE \o S_FORCE_TEST, S_MODE \o S_IDLE,
      S_LABEL \o S_rest, S_LABEL \o S_long_label, S_STOP }

ForceCommand == Command("label", ForceCommands, PlainEnvs)
ForceLoop == Loop("label", SessionSamples)
ForceTime == AdvanceTime(SetupDelay + ForceMaxAdvances * TimeStep)

NextForce ==
    \/ Connect("label")
    \/ ForceCommand
    \/ ForceLoop
    \/ ForceTime

SpecForce == Init /\ [][NextForce]_vars

----------------------------------------------------------------------------
(* SpecBatch: DistanceTest sessions of one connection over two batches,    *)
(* with readings that vary from tick to tick.                              *)

BatchCommands ==
    { S_MODE \o S_DISTANCE_TEST, S_START \o S_red_10 }

BatchSamples == { SampleA, SampleB }

BatchCommand == Command("samples", BatchCommands, PlainEnvs)
BatchLoop == Loop("samples", BatchSamples)
BatchTime == AdvanceTime(SetupDelay + BatchMaxAdvances * TimeStep)

NextBatch ==
    \/ Connect("samples")
    \/ BatchCommand
    \/ BatchLoop
    \/ BatchTime

SpecBatch == Init /\ [][NextBatch]_vars

----------------------------------------------------------------------------
(* SpecRace: the BLE callbacks and loop() as two tasks.  The callbacks run  *)
(* one at a time in the Bluetooth task, loop() in the Arduino loop task;    *)
(* the globals they share are plain variables with no lock between the      *)
(* tasks, so the steps of one task interleave with the steps of the other.  *)

RaceNames == { S_HR_SPO2, S_TEMPERATURE }
RaceEnvs == Envs({LowHeapLimit}, {AllReady, AllFailing})
RaceSamples == { SampleA }

\* the snapshots that belong to one transition: the values before a
\* callback that starts in state s and the values after it (outcome: what
\* the callback ends with when nothing interleaves)
Around(s, outcome) == << Combination(s), Combination(outcome) >>

\* the snapshots a reader may take in state s without seeing a transition
\* half done
Settled(rc, s) ==
    IF rc.cb = "idle" THEN { Combination(s) } ELSE { rc.around[1], rc.around[2] }

Step(r, event, rc) ==
    /\ Commit(r)
    /\ lastEvent' = event
    /\ race' = rc
    /\ UNCHANGED << scenario, given, taken >>

\* ServerCallbacks::onConnect
RaceConnect ==
    /\ race.cb = "idle" /\ ~clientConnected
    /\ \E reported \in ReportedHeapValues :
          Step(onConnect(G, reported), [ type |-> "connect" ], race)

\* switchMode: `currentMode = newMode`
SwitchWritesMode ==
    /\ race.cb = "idle" /\ clientConnected
    /\ \E name \in RaceNames, env \in RaceEnvs :
          /\ resolveMode(name) # currentMode
          /\ Step([G EXCEPT !.currentMode = resolveMode(name)],
                  [ type |-> "switchMode", at |-> "mode" ],
                  [race EXCEPT !.cb = "period", !.name = name, !.env = env,
                               !.around =
                                   Around(G, handleControlCommand(
                                                 G, S_MODE \o name, env))])

\* switchMode: `reportingPeriod = newReportingPeriod`
SwitchWritesPeriod ==
    /\ race.cb = "period"
    /\ Step([G EXCEPT !.reportingPeriod = resolvePeriod(race.name)],
            [ type |-> "switchMode", at |-> "period" ],
            [race EXCEPT !.cb = "timer"])

\* switchMode: `tsLastReport = 0`
SwitchWritesTimer ==
    /\ race.cb = "timer"
    /\ Step([G EXCEPT !.tsLastReport = 0],
            [ type |-> "switchMode", at |-> "timer" ],
            [race EXCEPT !.cb = "sensors"])

\* switchMode: the first resetSensors() of the transition begins (with
\* enough memory every path starts with one); it clears the flags first and
\* then spends 300 ms on the bus
SwitchStartsReset ==
    /\ race.cb = "sensors"
    /\ Step(resetSensors(G), [ type |-> "switchMode", at |-> "reset" ],
            [race EXCEPT !.cb = "bus"])

\* switchMode: the reset and the priming attempts end, the flag of a
\* sensor that answered is set
SwitchEndsPriming ==
    /\ race.cb = "bus"
    /\ Step(switchSensors(G, resolveMode(race.name), race.env),
            [ type |-> "switchMode", at |-> "primed" ],
            [race EXCEPT !.cb = "state"])

\* switchMode: the mode-local state; handleControlCommand: sendStatus()
SwitchReturns ==
    /\ race.cb = "state"
    /\ Step(sendStatus(resetModeState(G, resolveMode(race.name)), race.env.reported),
            [ type |-> "command", command |-> S_MODE \o race.name ],
            [race EXCEPT !.cb = "idle"])

\* onDisconnect: `clientConnected = false`, resetSensors() begins
DisconnectStartsReset ==
    /\ race.cb = "idle" /\ clientConnected
    /\ Step(resetSensors([G EXCEPT !.clientConnected = FALSE]),
            [ type |-> "onDisconnect", at |-> "reset" ],
            [race EXCEPT !.cb = "dropping",
                         !.around = Around(G, onDisconnect(G))])

\* onDisconnect: resetSensors() ends, the globals are set back
DisconnectReturns ==
    /\ race.cb = "dropping"
    /\ Step(onDisconnect(G), [ type |-> "disconnect" ],
            [race EXCEPT !.cb = "idle"])

\* loop / readSensorData: the accelerometer is read and the conditions of
\* the two optical branches are evaluated.  The mode, the flags and the
\* period are read together here, which is the most a reader without a
\* lock can hope for (loop() reads the period later still).
TickChecks ==
    /\ race.tick = "idle"
    /\ \E sample \in RaceSamples :
          LET pox == poxInitialized /\ (currentMode = MODE_HR_SPO2
                                           \/ currentMode = MODE_QUALITY)
              raw == rawSensorInitialized
          IN Step([G EXCEPT !.ax = sample.ax, !.ay = sample.ay, !.az = sample.az],
                  [ type |-> "tick", at |-> "check" ],
                  [race EXCEPT !.tick = IF pox \/ raw THEN "access" ELSE "report",
                               !.pox = pox, !.raw = raw,
                               !.snap = Combination(G),
                               !.legit = Settled(race, G)])

\* readSensorData: the bus accesses of the branches entered (pox.update(),
\* rawSensor.update(), getRawValues, the temperature calls)
TickAccesses ==
    /\ race.tick = "access"
    /\ \E sample \in RaceSamples :
          LET r == readSensorData([G EXCEPT !.poxInitialized = race.pox,
                                            !.rawSensorInitialized = race.raw,
                                            !.currentMode = race.snap.mode],
                                  sample)
          IN Step([r EXCEPT !.poxInitialized = poxInitialized,
                            !.rawSensorInitialized = rawSensorInitialized,
                            !.currentMode = currentMode,
                            !.ax = ax, !.ay = ay, !.az = az, !.fsrValue = fsrValue],
                  [ type |-> "tick", at |-> "access" ],
                  [race EXCEPT !.tick = "report"])

\* loop: the period check, sendData(), `tsLastReport = millis()`
TickReports ==
    /\ race.tick = "report"
    /\ \E lenv \in LoopEnvs :
          Step(IF Elapsed(G, tsLastReport) >= reportingPeriod
               THEN [sendData(G, lenv) EXCEPT !.tsLastReport = now]
               ELSE G,
               [ type |-> "loop" ],
               [race EXCEPT !.tick = "idle"])

NextRace ==
    \/ RaceConnect
    \/ SwitchWritesMode
    \/ SwitchWritesPeriod
    \/ SwitchWritesTimer
    \/ SwitchStartsReset
    \/ SwitchEndsPriming
    \/ SwitchReturns
    \/ DisconnectStartsReset
    \/ DisconnectReturns
    \/ TickChecks
    \/ TickAccesses
    \/ TickReports

SpecRace == Init /\ [][NextRace]_vars

----------------------------------------------------------------------------
(* SpecTemp: stays in TEMPERATURE over several sampling periods, with a    *)
(* device that has or has not finished its conversion when asked.          *)

TempCommands == { S_MODE \o S_TEMPERATURE, S_MODE \o S_IDLE, S_RESET }
TempSamples == { SampleA, SampleB }

NextTemp ==
    \/ Connect("nothing")
    \/ Disconnect("nothing")
    \/ Command("nothing", TempCommands, PlainEnvs)
    \/ Loop("nothing", TempSamples)
    \/ AdvanceTime(SetupDelay + TempMaxAdvances * TimeStep)

SpecTemp == Init /\ [][NextTemp]_vars

----------------------------------------------------------------------------
(* SpecRecover: modes left without their sensor, by failed initialization  *)
(* or RESET, and the MODE commands that follow.                            *)

RecoverCommands ==
    { S_MODE \o name : name \in KnownModeNames } \cup { S_RESET }

NextRecover ==
    \/ Connect("recover")
    \/ Disconnect("recover")
    \/ Command("recover", RecoverCommands, ModeEnvs)
    \/ Loop("recover", Samples)

SpecRecover == Init /\ [][NextRecover]_vars

----------------------------------------------------------------------------
(* SpecLive: ForceTest sessions under fairness.  loop() keeps iterating:    *)
(* one reporting period after another goes by and a report is made; the     *)
(* client stops sending LABEL early enough for the window of the last       *)
(* session to fit the explored clock.                                       *)

LiveLimit == SetupDelay + LiveMaxAdvances * TimeStep

LiveLabel ==
    /\ now + collectionDuration <= LiveLimit
    /\ Command("nothing", { S_LABEL \o S_rest }, PlainEnvs)

LiveCommand ==
    Command("nothing", { S_MODE \o S_FORCE_TEST, S_MODE \o S_IDLE, S_STOP },
            PlainEnvs)

\* a reporting period passes and the iteration of loop() that finds the
\* report due runs
LiveTick ==
    /\ now + TimeStep <= LiveLimit
    /\ \E r \in { loop([G EXCEPT !.now = now + TimeStep], sample, env) :
                     sample \in SessionSamples, env \in LoopEnvs } :
          Commit(r) /\ Observe("nothing", [ type |-> "loop" ], r)

NextLive ==
    \/ Connect("nothing")
    \/ Disconnect("nothing")
    \/ LiveLabel
    \/ LiveCommand
    \/ LiveTick

SpecLive == Init /\ [][NextLive]_vars /\ WF_vars(LiveTick)

----------------------------------------------------------------------------
(* SpecLong: one DistanceTest session of many hours, started right after    *)
(* the connection, one sample per reporting period.                         *)

LongLimit == SetupDelay + LongMaxAdvances * TimeStep

NextLong ==
    \/ Connect("samples")
    \/ Command("samples", { S_MODE \o S_DISTANCE_TEST }, PlainEnvs)
    \/ ( /\ now + UINT16 * TimeStep <= LongLimit
         /\ Command("samples", { S_START \o S_red_10 }, PlainEnvs) )
    \/ Loop("samples", SessionSamples)
    \/ AdvanceTime(LongLimit)

SpecLong == Init /\ [][NextLong]_vars

----------------------------------------------------------------------------
(* SpecQuality: stays in QUALITY over several reporting periods, with good  *)
(* and bad readings, failed entries, RESET, re-entry and disconnects.       *)

NextQuality ==
    \/ Connect("quality")
    \/ Disconnect("quality")
    \/ Command("quality", { S_MODE \o S_QUALITY, S_MODE \o S_IDLE, S_RESET },
               Envs({LowHeapLimit}, {AllReady, AllFailing}))
    \/ Loop("quality", { SampleA, SampleB, SampleZero })
    \/ AdvanceTime(SetupDelay + QualMaxAdvances * TimeStep)

SpecQuality == Init /\ [][NextQuality]_vars

----------------------------------------------------------------------------
(* Vocabulary of the properties *)

\* the mode each documented command name stands for
ModeOfName ==
    [ name \in KnownModeNames |->
        IF name = S_HR_SPO2 THEN MODE_HR_SPO2
        ELSE IF name = S_TEMPERATURE THEN MODE_TEMPERATURE
        ELSE IF name = S_FORCE_TEST THEN MODE_FORCE_TEST
        ELSE IF name = S_DISTANCE_TEST THEN MODE_DISTANCE_TEST
        ELSE IF name = S_QUALITY THEN MODE_QUALITY
        ELSE IF name = S_RAW_DATA THEN MODE_RAW_DATA
        ELSE MODE_IDLE ]

NameOfMode(mode) == CHOOSE name \in KnownModeNames : ModeOfName[name] = mode

\* names that are none of the seven
UnrecognizedNames ==
    { S_idle, S_HR, << >>, S_HR_SPO2 \o <<"x">>, <<" ">> \o S_IDLE, S_FORCE_TEST \o <<":">> }

\* the optical variant that is live
OpticalVariant(s) ==
    IF s.poxInitialized /\ s.rawSensorInitialized THEN "both"
    ELSE IF s.poxInitialized THEN "pulse-oximetry"
    ELSE IF s.rawSensorInitialized THEN "raw"
    ELSE "none"

BusOps(lg) == Ops(lg, "resetSensors") \cup Ops(lg, "primeSensor")
Emissions(lg) == Ops(lg, "status") \cup Ops(lg, "data")
PrimingSucceeded(lg) == \E i \in Ops(lg, "primeSensor") : lg[i].ok

\* the globals of a record, without the record of what the handler did
Globals(s) == [s EXCEPT !.log = << >>]

IsCommand(command) ==
    lastEvent.type = "command" /\ lastEvent.command = command

SessionActive(s) == s.forceTest.isCollecting \/ s.distanceTest.collectingData

AllCommands ==
    { S_MODE \o name : name \in ModeNameInputs \cup UnrecognizedNames }
        \cup OtherCommands \cup { S_PING, << >> }

----------------------------------------------------------------------------
(* C1 *)

\* the optical variant C1 gives for a mode (it names none for RAW_DATA)
VariantOfMode(mode) ==
    IF mode = MODE_HR_SPO2 \/ mode = MODE_QUALITY THEN "pulse-oximetry"
    ELSE IF mode \in {MODE_TEMPERATURE, MODE_FORCE_TEST, MODE_DISTANCE_TEST}
    THEN "raw"
    ELSE "none"

SwitchedTo(r, B) ==
    /\ r.currentMode = B
    /\ B # MODE_RAW_DATA => OpticalVariant(r) = VariantOfMode(B)

----------------------------------------------------------------------------
(* C2 *)

\* C2: in every reachable state at most one of the two optical variants
\* (pulse oximetry, raw) is live.
Thm_C2 == ~(poxInitialized /\ rawSensorInitialized)

\* the pulse oximeter has just replaced a live raw sensor
Wit_C2 ==
    /\ IsCommand(S_MODE \o S_HR_SPO2)
    /\ Cardinality(Ops(log, "resetSensors")) >= 2
    /\ poxInitialized /\ ~rawSensorInitialized

----------------------------------------------------------------------------
(* C3 *)

\* C3 as claimed: in every reachable state an active acquisition session
\* (forceTest.isCollecting or distanceTest.collectingData) implies that the
\* mode is FORCE_TEST or DISTANCE_TEST.
Cex_C3 ==
    SessionActive(G) => currentMode \in {MODE_FORCE_TEST, MODE_DISTANCE_TEST}

----------------------------------------------------------------------------
(* C4 *)

\* C4: from every reachable state, a MODE command whose name resolves to the
\* current mode performs no bus reset and no priming, and leaves mode,
\* reporting period, report timer, sensor liveness, session state and quality
\* history (every global) unchanged.
Thm_C4 ==
    \A name \in KnownModeNames, env \in ModeEnvs :
        LET r == handleControlCommand(G, S_MODE \o name, env) IN
        ModeOfName[name] = currentMode =>
            /\ BusOps(r.log) = {}
            /\ Ops(r.log, "accel.begin") = {}
            /\ Globals(r) = Globals(G)

\* MODE:FORCE_TEST has been sent during a ForceTest session, which goes on
Wit_C4 ==
    /\ IsCommand(S_MODE \o S_FORCE_TEST)
    /\ currentMode = MODE_FORCE_TEST
    /\ forceTest.isCollecting
    /\ rawSensorInitialized
    /\ BusOps(log) = {}

----------------------------------------------------------------------------
(* C5 *)

\* C5: from every reachable state and for every name that is none of the
\* seven mode names, MODE:<name> has exactly the effect of MODE:IDLE (the
\* same globals, bus operations and notifications).
Thm_C5 ==
    \A name \in UnrecognizedNames, env \in ModeEnvs :
        handleControlCommand(G, S_MODE \o name, env)
            = handleControlCommand(G, S_MODE \o S_IDLE, env)

\* MODE:idle has taken the firmware out of a mode with a live sensor
Wit_C5 ==
    /\ IsCommand(S_MODE \o S_idle)
    /\ currentMode = MODE_IDLE
    /\ Ops(log, "resetSensors") # {}
    /\ ~poxInitialized /\ ~rawSensorInitialized

----------------------------------------------------------------------------
(* C6 *)

Torn(s) ==
    /\ s.currentMode = MODE_IDLE
    /\ ~s.poxInitialized /\ ~s.rawSensorInitialized
    /\ ~s.forceTest.isCollecting /\ ~s.distanceTest.collectingData
    /\ ~s.qualityMode.hasPreviousData
    /\ ~s.clientConnected

\* C6: the mode after setup is IDLE, and from every reachable state a
\* disconnect leaves the mode IDLE, no optical variant live, no ForceTest or
\* DistanceTest session active, the quality history invalid and the
\* connection flag false.
Thm_C6 ==
    /\ lastEvent.type = "setup" => currentMode = MODE_IDLE
    /\ Torn(onDisconnect(G))
    /\ lastEvent.type = "disconnect" => Torn(G)

\* the client has gone during ForceTest with a labelled session
Wit_C6 ==
    /\ lastEvent.type = "disconnect"
    /\ Torn(G)
    /\ forceTest.currentLabel # S_waiting

----------------------------------------------------------------------------
(* C7 *)

\* what C7 compares
TeardownView(s) ==
    << s.currentMode, s.poxInitialized, s.rawSensorInitialized,
       s.reportingPeriod, s.forceTest.isCollecting,
       s.distanceTest.collectingData, s.forceTest.currentLabel >>

\* C7 as claimed: from every reachable state with an active session, a
\* disconnect gives the mode, sensor liveness, reporting period, collecting
\* flags and ForceTest label that STOP followed by MODE:IDLE give.
Cex_C7 ==
    SessionActive(G) =>
        \A env \in PlainEnvs :
            TeardownView(onDisconnect(G))
                = TeardownView(
                      handleControlCommand(
                          handleControlCommand(G, S_STOP, env),
                          S_MODE \o S_IDLE, env))

----------------------------------------------------------------------------
(* C8 *)

IdlePayload(p, mode) ==
    IF mode = MODE_FORCE_TEST
    THEN p.kind = "force" /\ p.label = S_waiting /\ ~p.collecting
    ELSE /\ p.kind = "distance" /\ p.led = S_none
         /\ p.distance_mm = 0 /\ ~p.collecting

ReenteredClean ==
    \A i \in Ops(log, "data") :
        scenario.phase = "reentered" =>
            IdlePayload(log[i].payload, scenario.mode)

----------------------------------------------------------------------------
(* C9 *)

\* C9: no data or status notification of the last handler was sent with the
\* connection flag false, and from every reachable state with the flag false
\* no command and no loop iteration sends one.
Thm_C9 ==
    /\ \A i \in Emissions(log) : log[i].connected
    /\ ~clientConnected =>
          /\ \A command \in AllCommands, env \in PlainEnvs :
                Emissions(handleControlCommand(G, command, env).log) = {}
          /\ \A sample \in Samples, env \in LoopEnvs :
                Emissions(loop(G, sample, env).log) = {}

\* a report was due with no client: sendData ran and sent nothing
Wit_C9 ==
    /\ lastEvent.type = "loop"
    /\ ~clientConnected
    /\ tsLastReport = now
    /\ Emissions(log) = {}

----------------------------------------------------------------------------
(* C10 *)

EndsWithStatusOf(r) ==
    /\ Len(r.log) > 0
    /\ r.log[Len(r.log)].op = "status"
    /\ r.log[Len(r.log)].mode = NameOfMode(r.currentMode)

\* C10: from every reachable state, a connect event sends a status payload,
\* and with a client connected every command, recognized or not, ends with a
\* status payload; the payload names the mode that is current afterwards.
Thm_C10 ==
    /\ \A reported \in ReportedHeapValues : EndsWithStatusOf(onConnect(G, reported))
    /\ clientConnected =>
          \A command \in AllCommands, env \in ModeEnvs :
              EndsWithStatusOf(handleControlCommand(G, command, env))

\* an unrecognized command was answered with the status of the current mode
Wit_C10 ==
    /\ IsCommand(S_MODE_bare)
    /\ clientConnected
    /\ currentMode = MODE_TEMPERATURE
    /\ Len(log) = 1
    /\ log[1].op = "status" /\ log[1].mode = S_TEMPERATURE

----------------------------------------------------------------------------
(* C11 *)

ForcePayloads(lg) == { i \in Ops(lg, "data") : lg[i].payload.kind = "force" }

SinceLabel(time) == time - given.start

\* C11 as claimed: in ForceTest, with L the text given by the last LABEL:L,
\* every payload sent while the session is collecting carries label exactly
\* L and collecting true, and every payload sent once the collection
\* duration has elapsed carries label "waiting" and collecting false.
Cex_C11 ==
    \A i \in ForcePayloads(log) :
        LET p == log[i].payload IN
        /\ (forceTest.isCollecting \/ p.collecting) =>
              p.collecting /\ p.label = given.label
        /\ (given # NothingGiven /\ SinceLabel(p.timestamp) >= collectionDuration) =>
              p.label = S_waiting /\ ~p.collecting

\* what the code does keep of L: its first LabelSize - 1 characters
ForceLabelKept ==
    \A i \in ForcePayloads(log) :
        LET p == log[i].payload IN
        /\ (forceTest.isCollecting \/ p.collecting) =>
              /\ p.collecting
              /\ p.label = SubSeq(given.label, 1, Min(Len(given.label), LabelSize - 1))
        /\ (given # NothingGiven /\ SinceLabel(p.timestamp) >= collectionDuration) =>
              p.label = S_waiting /\ ~p.collecting

----------------------------------------------------------------------------
(* C12 *)

ReportDue(s) == s.now - s.tsLastReport >= s.reportingPeriod

\* C12: in ForceTest, a tick (a loop iteration whose report is due) that
\* finds a collecting session whose collection duration has elapsed since
\* its LABEL closes it (collecting false, label "waiting") and sends no data
\* payload; and no payload with collecting true carries a time at or after
\* the expiry of the session.
Thm_C12 ==
    /\ \A sample \in SessionSamples, env \in LoopEnvs :
          LET r == loop(G, sample, env) IN
          ( /\ clientConnected /\ currentMode = MODE_FORCE_TEST
            /\ forceTest.isCollecting /\ ReportDue(G)
            /\ SinceLabel(now) >= collectionDuration )
          => /\ ~r.forceTest.isCollecting
             /\ r.forceTest.currentLabel = S_waiting
             /\ Ops(r.log, "data") = {}
    /\ \A i \in ForcePayloads(log) :
          log[i].payload.collecting =>
              SinceLabel(log[i].payload.timestamp) < collectionDuration

\* the due tick at the expiry has run: session closed, nothing sent
Wit_C12 ==
    /\ lastEvent.type = "loop"
    /\ clientConnected /\ currentMode = MODE_FORCE_TEST
    /\ tsLastReport = now
    /\ SinceLabel(now) >= collectionDuration
    /\ given.label = S_rest
    /\ ~forceTest.isCollecting /\ forceTest.currentLabel = S_waiting
    /\ Ops(log, "data") = {}

----------------------------------------------------------------------------
(* C13 *)

\* the tick just run took the (k * N)-th sample since START, for some k >= 1
BatchBoundary == taken.fresh /\ taken.count % samplesPerBatch = 0

\* the mean of the readings since START, in hundredths as %.2f prints it
MeanOf(sum, count) == (2 * 100 * sum + count) \div (2 * count)

RightAverage(p) ==
    /\ p.samples = taken.count
    /\ p.avg_ir = MeanOf(taken.ir, taken.count)
    /\ p.avg_red = MeanOf(taken.red, taken.count)

\* C13 as claimed: in DistanceTest, the tick that takes the (k * N)-th sample
\* since START sends exactly one average payload, whose sample count is
\* k * N and whose averages are the means of all readings since START; a
\* tick that takes any other sample, or none, sends no average payload.
Cex_C13 ==
    lastEvent.type = "loop" =>
        IF BatchBoundary
        THEN /\ Cardinality(Averages(log)) = 1
             /\ \A i \in Averages(log) : RightAverage(log[i].payload)
        ELSE Averages(log) = {}

\* what the code does guarantee: the payload a batch-boundary tick formats
\* is that average, and no other tick formats one
BatchAverageFormatted ==
    lastEvent.type = "loop" =>
        LET formatted == { i \in Averages(log) : log[i].written } IN
        IF BatchBoundary
        THEN /\ Cardinality(Averages(log)) = 1
             /\ \A i \in Averages(log) : log[i].written /\ RightAverage(log[i].payload)
        ELSE formatted = {}

----------------------------------------------------------------------------
(* C14 *)

RawPayloadOfTick(p) ==
    /\ p.kind = "distance"
    /\ p.ir = irValue /\ p.red = redValue
    /\ p.led = distanceTest.currentLED
    /\ p.distance_mm = distanceTest.currentDistance
    /\ p.collecting
    /\ p.timestamp = now

\* C14 as claimed: in DistanceTest, every tick of an active session, batch
\* boundary or not, sends a raw payload with the current IR and red
\* readings, the target, the distance and the collecting flag.
Cex_C14 ==
    (lastEvent.type = "loop" /\ taken.fresh) =>
        \E i \in Ops(log, "data") : RawPayloadOfTick(log[i].payload)

\* no tick of an active session formats a raw payload at all
NoRawWhileCollecting ==
    (lastEvent.type = "loop" /\ taken.fresh) =>
        \A i \in Ops(log, "data") :
            log[i].written => log[i].payload.kind = "average"

----------------------------------------------------------------------------
(* C15 *)

\* readings good and bad: at rest with plausible vitals, moving with none,
\* all zero
QualitySamples == { SampleA, SampleB, SampleZero }

Assessments(lg) == Ops(lg, "assessDataQuality")
QualityPayloads(lg) == { i \in Ops(lg, "data") : lg[i].payload.kind = "quality" }

\* the classifier was not evaluated: no feature vector was built
Unclassified(lg) == \A i \in Assessments(lg) : lg[i].features = << >>

SeededWith(r) ==
    /\ r.qualityMode.hasPreviousData
    /\ r.qualityMode.previousHeartRate = r.heartRate
    /\ r.qualityMode.previousSpO2 = r.spO2
    /\ r.qualityMode.previousAccelMag * r.qualityMode.previousAccelMag
          <= r.ax * r.ax + r.ay * r.ay + r.az * r.az
    /\ (r.qualityMode.previousAccelMag + 1) * (r.qualityMode.previousAccelMag + 1)
          > r.ax * r.ax + r.ay * r.ay + r.az * r.az

\* C15: every entry into QUALITY leaves the history invalid, and in QUALITY
\* with the history invalid (no sample assessed since the entry) the tick
\* that assesses a sample, whatever its readings, reports quality good (1),
\* seeds the history with that sample's heart rate, SpO2 and acceleration
\* magnitude, and does not evaluate the classifier.
Thm_C15 ==
    /\ \A env \in ModeEnvs :
          currentMode # MODE_QUALITY =>
              ~handleControlCommand(G, S_MODE \o S_QUALITY, env).qualityMode.hasPreviousData
    /\ (clientConnected /\ currentMode = MODE_QUALITY /\ ~qualityMode.hasPreviousData) =>
          \A sample \in QualitySamples, env \in LoopEnvs :
              LET r == loop(G, sample, env) IN
              ReportDue(G) =>
                 /\ Assessments(r.log) # {}
                 /\ Unclassified(r.log)
                 /\ QualityPayloads(r.log) # {}
                 /\ \A i \in QualityPayloads(r.log) : r.log[i].payload.quality = 1
                 /\ SeededWith(r)

\* the first tick after an entry into QUALITY has run
Wit_C15 ==
    /\ lastEvent.type = "loop"
    /\ clientConnected /\ currentMode = MODE_QUALITY /\ poxInitialized
    /\ qualityMode.hasPreviousData /\ qualityMode.totalSamples = 1
    /\ Assessments(log) # {} /\ Unclassified(log)
    /\ \E i \in QualityPayloads(log) : log[i].payload.quality = 1

----------------------------------------------------------------------------
(* C16 *)

MagnitudeOf(r) == Magnitude(r.ax, r.ay, r.az)

\* the globals one reporting period later
Later(r) == [Globals(r) EXCEPT !.now = @ + TimeStep]

\* C16 as claimed: in QUALITY, for two consecutive assessed samples the
\* delta features (4, 5, 6) given to the classifier for the second are
\* |current - previous| of heart rate, SpO2 and acceleration magnitude (all
\* zero for identical samples).
Cex_C16 ==
    (clientConnected /\ currentMode = MODE_QUALITY /\ ReportDue(G)) =>
        \A a \in QualitySamples, b \in QualitySamples, env \in LoopEnvs :
            LET r1 == loop(G, a, env)
                r2 == loop(Later(r1), b, env)
            IN \A i \in Assessments(r2.log) :
                  LET f == r2.log[i].features IN
                  /\ Len(f) = NUM_FEATURES
                  /\ f[4] = Abs(r2.heartRate - r1.heartRate)
                  /\ f[5] = Abs(r2.spO2 - r1.spO2)
                  /\ f[6] = Abs(MagnitudeOf(r2) - MagnitudeOf(r1))

\* what the code computes: the acceleration delta is right, the other two
\* are | current - |current - previous| |
QualityDeltasAsCoded ==
    (clientConnected /\ currentMode = MODE_QUALITY /\ ReportDue(G)) =>
        \A a \in QualitySamples, b \in QualitySamples, env \in LoopEnvs :
            LET r1 == loop(G, a, env)
                r2 == loop(Later(r1), b, env)
            IN \A i \in Assessments(r2.log) :
                  LET f == r2.log[i].features IN
                  /\ Len(f) = NUM_FEATURES
                  /\ f[4] = Abs(r2.heartRate - Abs(r2.heartRate - r1.heartRate))
                  /\ f[5] = Abs(r2.spO2 - Abs(r2.spO2 - r1.spO2))
                  /\ f[6] = Abs(MagnitudeOf(r2) - MagnitudeOf(r1))

----------------------------------------------------------------------------
(* C17 *)

\* whether the sensor lets a priming attempt with this outcome succeed
Succeeds(outcome) ==
    outcome.begin /\ outcome.timeoutAt \notin 1..DummyReads /\ outcome.ready

\* the attempts a caller that retries up to maxRetries times makes when the
\* sensor answers the successive attempts with the outcomes of prime
AttemptsNeeded(prime) ==
    IF \E i \in 1..maxRetries : Succeeds(prime[i])
    THEN CHOOSE i \in 1..maxRetries :
            Succeeds(prime[i]) /\ \A j \in 1..(i - 1) : ~Succeeds(prime[j])
    ELSE maxRetries

\* init: the result of an initializer started with an empty record; flag:
\* the variant's flag afterwards.  The initializer primed as often as a
\* retrying caller does, reset the bus between any two attempts, and
\* returned failure with the variant uninitialized iff no attempt succeeded.
Retried(init, flag, prime) ==
    LET lg == init.s.log
        attempts == Ops(lg, "primeSensor")
    IN /\ Cardinality(attempts) = AttemptsNeeded(prime)
       /\ \A i \in attempts, j \in attempts :
             i < j => \E k \in Ops(lg, "resetSensors") : i < k /\ k < j
       /\ init.ok = PrimingSucceeded(lg)
       /\ flag = init.ok
       /\ init.ok = (\E i \in 1..maxRetries : Succeeds(prime[i]))

PulseOximeterRetried(s, env) ==
    LET init == initializePulseOximeter(s, env) IN
    Retried(init, init.s.poxInitialized, env.prime)

RawSensorRetried(s, env) ==
    LET init == initializeRawSensor(s, env) IN
    Retried(init, init.s.rawSensorInitialized, env.prime)

\* a MODE command to another mode that has an optical variant primed as
\* often as a retrying caller does, with a bus reset between any two
\* attempts, and left a variant live iff an attempt succeeded
CommandRetried(s, name, env) ==
    LET r == handleControlCommand(s, S_MODE \o name, env)
        attempts == Ops(r.log, "primeSensor")
    IN (ModeOfName[name] \notin {s.currentMode, MODE_IDLE}) =>
          /\ Cardinality(attempts) = AttemptsNeeded(env.prime)
          /\ \A i \in attempts, j \in attempts :
                i < j => \E k \in Ops(r.log, "resetSensors") : i < k /\ k < j
          /\ (OpticalVariant(r) # "none") = PrimingSucceeded(r.log)
          /\ PrimingSucceeded(r.log) = (\E i \in 1..maxRetries : Succeeds(env.prime[i]))

\* C17 as claimed: with enough memory for the initialization to start, each
\* of the two initializers, and so every MODE command that calls one,
\* primes up to 3 times, with a bus reset between attempts, until an attempt
\* succeeds; when all attempts fail the initializer leaves its variant
\* uninitialized and returns failure.
Cex_C17 ==
    clientConnected =>
        \A env \in ModeEnvs :
            checkMemory(env.heap) =>
                /\ PulseOximeterRetried(G, env)
                /\ RawSensorRetried(G, env)
                /\ \A name \in KnownModeNames : CommandRetried(G, name, env)

\* what the code does: the pulse oximeter, and every command for a mode
\* that uses it, is retried as claimed; the raw sensor is primed once, and
\* that one attempt decides
RetriedPulseOximeterOnly ==
    clientConnected =>
        \A env \in ModeEnvs :
            checkMemory(env.heap) =>
                /\ PulseOximeterRetried(G, env)
                /\ \A name \in KnownModeNames :
                      needsPulseOx(ModeOfName[name]) => CommandRetried(G, name, env)
                /\ LET init == initializeRawSensor(G, env) IN
                   /\ Cardinality(Ops(init.s.log, "primeSensor")) = 1
                   /\ init.ok = Succeeds(env.prime[1])
                   /\ init.s.rawSensorInitialized = init.ok
                /\ \A name \in KnownModeNames :
                      LET B == ModeOfName[name]
                          r == handleControlCommand(G, S_MODE \o name, env)
                      IN (B # currentMode /\ needsRawSensor(B)) =>
                            /\ Cardinality(Ops(r.log, "primeSensor")) = 1
                            /\ r.rawSensorInitialized = Succeeds(env.prime[1])
                            /\ ~r.poxInitialized

----------------------------------------------------------------------------
(* C18 *)

\* the payload sendData() formats in a mode outside a collection session
KindOfMode(mode) ==
    IF mode = MODE_HR_SPO2 THEN "hr_spo2"
    ELSE IF mode = MODE_TEMPERATURE THEN "temperature"
    ELSE IF mode = MODE_FORCE_TEST THEN "force"
    ELSE IF mode = MODE_DISTANCE_TEST THEN "distance"
    ELSE IF mode = MODE_QUALITY THEN "quality"
    ELSE IF mode = MODE_RAW_DATA THEN "raw_data"
    ELSE "idle"

\* the optical readings of a payload are the ones stored in s
CarriesStored(payload, s) ==
    /\ payload.kind \in {"hr_spo2", "quality", "raw_data"} =>
          payload.hr = s.heartRate /\ payload.spo2 = s.spO2
    /\ payload.kind \in {"force", "distance", "raw_data"} =>
          payload.ir = s.irValue /\ payload.red = s.redValue
    /\ payload.kind = "temperature" => payload.temperature = s.temperature

\* the tick that led to t read no optical sensor and sent one payload, the
\* one of the mode of r, with the optical readings r holds
StaleTick(r, t) ==
    /\ Ops(t.log, "pox.update") = {} /\ Ops(t.log, "rawSensor.update") = {}
    /\ t.heartRate = r.heartRate /\ t.spO2 = r.spO2
    /\ t.irValue = r.irValue /\ t.redValue = r.redValue
    /\ t.temperature = r.temperature
    /\ t.currentMode = r.currentMode /\ OpticalVariant(t) = "none"
    /\ Cardinality(Ops(t.log, "data")) = 1
    /\ \A i \in Ops(t.log, "data") :
          /\ t.log[i].written
          /\ t.log[i].payload.kind = KindOfMode(r.currentMode)
          /\ CarriesStored(t.log[i].payload, r)

\* commands a client may send after a transition whose priming failed
LaterCommands ==
    { S_MODE \o name : name \in {S_IDLE, S_HR_SPO2, S_TEMPERATURE} }
        \cup { S_LABEL \o S_rest, S_START \o S_red_10, S_STOP, S_STATUS, S_PING }

\* the command took its effect in r2 and was acknowledged with a status
Processed(r, command, r2) ==
    /\ EndsWithStatusOf(r2)
    /\ \A name \in KnownModeNames :
          (command = S_MODE \o name /\ ModeOfName[name] # r.currentMode) =>
              SwitchedTo(r2, ModeOfName[name])
    /\ (command = S_LABEL \o S_rest /\ r.currentMode = MODE_FORCE_TEST) =>
          r2.forceTest.isCollecting /\ r2.forceTest.currentLabel = S_rest
    /\ (command = S_START \o S_red_10 /\ r.currentMode = MODE_DISTANCE_TEST) =>
          r2.distanceTest.collectingData
    /\ command = S_STOP => ~InSession(r2)

\* what the sensors may read on the ticks after the transition
TickSamples == { SampleA, SampleB }

\* the results of MODE:name, sent in state s, whose priming was attempted
\* and failed on every attempt
FailedTransitions(s, name) ==
    { r \in { handleControlCommand(s, S_MODE \o name, env) : env \in ModeEnvs } :
        Ops(r.log, "primeSensor") # {} /\ ~PrimingSucceeded(r.log) }

\* C18: with a client connected and whatever readings are stored, a MODE
\* command naming another mode B whose priming is attempted and fails on
\* every attempt returns with currentMode = B, no optical variant live and
\* the stored optical readings untouched; the following ticks, whatever
\* the sensors would read, each send B's payload with those readings; and
\* a command sent afterwards takes its effect and is acknowledged (a MODE
\* command for which the sensor answers brings its variant up).
Thm_C18 ==
    clientConnected =>
        \A before \in { Globals(readSensorData(G, SampleA)) } :
        \A name \in KnownModeNames :
            ModeOfName[name] # currentMode =>
                /\ \A r \in FailedTransitions(before, name) :
                      /\ r.currentMode = ModeOfName[name]
                      /\ OpticalVariant(r) = "none"
                      /\ r.heartRate = before.heartRate /\ r.spO2 = before.spO2
                      /\ r.irValue = before.irValue /\ r.redValue = before.redValue
                      /\ r.temperature = before.temperature
                /\ \A r \in { Later(x) : x \in FailedTransitions(before, name) } :
                      /\ \A sample \in TickSamples, lenv \in LoopEnvs :
                         \A t1 \in { loop(r, sample, lenv) } :
                         \A t2 \in { loop(Later(t1), sample, lenv) } :
                              StaleTick(r, t1) /\ StaleTick(r, t2)
                      /\ \A command \in LaterCommands, env2 \in PlainEnvs :
                         \A r2 \in { handleControlCommand(r, command, env2) } :
                              Processed(r, command, r2)

\* a transition to QUALITY all of whose three priming attempts failed
Wit_C18 ==
    /\ IsCommand(S_MODE \o S_QUALITY)
    /\ clientConnected /\ currentMode = MODE_QUALITY
    /\ Cardinality(Ops(log, "primeSensor")) = maxRetries
    /\ ~PrimingSucceeded(log)
    /\ OpticalVariant(G) = "none"
    /\ Emissions(log) # {}

----------------------------------------------------------------------------
(* C19 *)

\* what MODE:name does in state s when checkMemory reads heap
WithHeap(s, name, heap, prime, reported) ==
    handleControlCommand(s, S_MODE \o name,
                         [ heap |-> heap, prime |-> prime, reported |-> reported ])

\* C19 as claimed: a MODE command to another mode that has an optical
\* variant, handled while the free heap is below the limit, still resets
\* the bus and primes the sensor, and ends in the state and with the
\* notifications it ends with when the heap is sufficient.
Cex_C19 ==
    clientConnected =>
        \A name \in KnownModeNames, prime \in PrimeSeqs, reported \in ReportedHeapValues :
            LET low == WithHeap(G, name, LowHeapLimit - 1, prime, reported)
                enough == WithHeap(G, name, LowHeapLimit, prime, reported)
            IN (ModeOfName[name] \notin {currentMode, MODE_IDLE}) =>
                  /\ Ops(low.log, "primeSensor") # {}
                  /\ Ops(low.log, "resetSensors") # {}
                  /\ low = enough

\* what the code does: below the limit neither initializer resets the bus
\* or primes; the mode changes, but no variant is brought up (one that was
\* live stays live only if switchMode did not reset it)
LowMemoryBlocks ==
    clientConnected =>
        \A name \in KnownModeNames, prime \in PrimeSeqs, reported \in ReportedHeapValues :
            LET low == WithHeap(G, name, LowHeapLimit - 1, prime, reported)
                init == IF needsPulseOx(ModeOfName[name])
                        THEN initializePulseOximeter(G, [ heap |-> LowHeapLimit - 1,
                                 prime |-> prime, reported |-> reported ])
                        ELSE initializeRawSensor(G, [ heap |-> LowHeapLimit - 1,
                                 prime |-> prime, reported |-> reported ])
            IN (ModeOfName[name] \notin {currentMode, MODE_IDLE}) =>
                  /\ ~init.ok /\ init.s = G
                  /\ low.currentMode = ModeOfName[name]
                  /\ Ops(low.log, "primeSensor") = {}
                  /\ low.poxInitialized =
                        (poxInitialized /\ ~rawSensorInitialized
                            /\ needsPulseOx(ModeOfName[name]))
                  /\ low.rawSensorInitialized =
                        (rawSensorInitialized /\ ~poxInitialized
                            /\ needsRawSensor(ModeOfName[name]))

----------------------------------------------------------------------------
(* C20 *)

\* every failed priming attempt recorded in lg is followed by a bus reset
FailuresReset(lg) ==
    \A i \in Ops(lg, "primeSensor") :
        ~lg[i].ok => \E k \in Ops(lg, "resetSensors") : k > i

\* C20 as claimed: when either initializer returns, and so when a MODE
\* command that called it returns, every priming attempt that failed has
\* been followed by a bus reset.
Cex_C20 ==
    clientConnected =>
        \A env \in ModeEnvs :
            /\ FailuresReset(initializePulseOximeter(G, env).s.log)
            /\ FailuresReset(initializeRawSensor(G, env).s.log)
            /\ \A name \in KnownModeNames :
                  FailuresReset(handleControlCommand(G, S_MODE \o name, env).log)

\* what the code does: the pulse oximeter's failures are each followed by a
\* reset; a failure of the raw sensor's one attempt is the last bus
\* operation of the initializer and of the command
RawFailureNotReset ==
    clientConnected =>
        \A env \in ModeEnvs :
            /\ FailuresReset(initializePulseOximeter(G, env).s.log)
            /\ \A name \in KnownModeNames :
                  LET B == ModeOfName[name]
                      r == handleControlCommand(G, S_MODE \o name, env)
                  IN /\ (B = currentMode \/ ~needsRawSensor(B)) => FailuresReset(r.log)
                     /\ (B # currentMode /\ needsRawSensor(B) /\ checkMemory(env.heap)
                            /\ ~Succeeds(env.prime[1])) =>
                           /\ ~FailuresReset(r.log)
                           /\ ~FailuresReset(initializeRawSensor(G, env).s.log)
                           /\ \A i \in BusOps(r.log) : i <= CHOOSE j \in Ops(r.log, "primeSensor") : TRUE

----------------------------------------------------------------------------
(* C21 *)

\* apart from the two sensor flags and the record of operations, r is s
SensorsOnly(s, r) ==
    [Globals(r) EXCEPT !.poxInitialized = s.poxInitialized,
                       !.rawSensorInitialized = s.rawSensorInitialized]
        = Globals(s)

\* C21: from every reachable state, whatever the mode and the session
\* state, resetSensors() returns (it has one path, recorded as one
\* resetSensors operation) with neither sensor initialized and everything
\* else as it was, and a second call right after it ends in the state the
\* first call ended in; the same holds for two RESET commands in a row.
Thm_C21 ==
    \A once \in { resetSensors(G) } :
    \A twice \in { resetSensors(Globals(once)) } :
        /\ Cardinality(Ops(once.log, "resetSensors")) = 1
        /\ Cardinality(Ops(twice.log, "resetSensors")) = 1
        /\ OpticalVariant(once) = "none"
        /\ SensorsOnly(G, once)
        /\ Globals(twice) = Globals(once)
        /\ \A env \in PlainEnvs :
           \A first \in { handleControlCommand(G, S_RESET, env) } :
           \A second \in { handleControlCommand(Globals(first), S_RESET, env) } :
                /\ OpticalVariant(first) = "none"
                /\ Globals(second) = Globals(first)
                /\ clientConnected => EndsWithStatusOf(second)

\* RESET was received in a mode with a collection session running and left
\* no sensor initialized
Wit_C21 ==
    /\ IsCommand(S_RESET)
    /\ Ops(log, "resetSensors") # {}
    /\ SessionActive(G) /\ currentMode # MODE_IDLE
    /\ OpticalVariant(G) = "none"

----------------------------------------------------------------------------
(* C22 *)

RawDataPayloads(lg) ==
    { i \in Ops(lg, "data") : lg[i].payload.kind = "raw_data" }

\* C22 as claimed: a MODE:RAW_DATA command for which the sensor answers
\* leaves the pulse oximeter live, and the heart rate and SpO2 of the
\* RawData payload of the next tick are the ones the pulse oximeter reads
\* on that tick.
Cex_C22 ==
    (clientConnected /\ currentMode # MODE_RAW_DATA) =>
        \A env \in PlainEnvs, sample \in TickSamples, lenv \in LoopEnvs :
        \A r \in { handleControlCommand(G, S_MODE \o S_RAW_DATA, env) } :
        \A t \in { loop(Later(r), sample, lenv) } :
            /\ r.currentMode = MODE_RAW_DATA
            /\ r.poxInitialized
            /\ Ops(t.log, "pox.update") # {}
            /\ RawDataPayloads(t.log) # {}
            /\ \A i \in RawDataPayloads(t.log) :
                  /\ t.log[i].payload.hr = sample.hr
                  /\ t.log[i].payload.spo2 = sample.spo2

\* what the code does: RAW_DATA brings up the raw sensor only; its ticks
\* read IR and red from it and never the pulse oximeter, so the payload
\* carries the heart rate and SpO2 stored before the mode was entered
RawDataKeepsVitals ==
    (clientConnected /\ currentMode # MODE_RAW_DATA) =>
        \A env \in PlainEnvs, sample \in TickSamples, lenv \in LoopEnvs :
        \A r \in { handleControlCommand(G, S_MODE \o S_RAW_DATA, env) } :
        \A t \in { loop(Later(r), sample, lenv) } :
            /\ r.currentMode = MODE_RAW_DATA
            /\ OpticalVariant(r) = "raw"
            /\ Ops(t.log, "pox.update") = {}
            /\ Ops(t.log, "rawSensor.update") # {}
            /\ Cardinality(RawDataPayloads(t.log)) = 1
            /\ \A i \in RawDataPayloads(t.log) :
                  /\ t.log[i].payload.hr = heartRate
                  /\ t.log[i].payload.spo2 = spO2
                  /\ t.log[i].payload.ir = sample.ir
                  /\ t.log[i].payload.red = sample.red

----------------------------------------------------------------------------
(* C23 *)

\* C23 as claimed: with the callbacks and loop() as two tasks, the mode,
\* the two sensor flags and the reporting period that an iteration of
\* loop() reads are those before the callback in progress or those after
\* it, never some of each.
Cex_C23 == race.snap \in race.legit

\* the steps of a callback, run without interruption, are the callback:
\* when it returns the combination is the one the whole handler gives
CallbackAsWhole ==
    (race.cb = "idle" /\ lastEvent.type \in {"command", "disconnect"}) =>
        Combination(G) = race.around[2]

----------------------------------------------------------------------------
(* C24 *)

\* the callback task is inside resetSensors() or primeSensor()
BusBusy(rc) == rc.cb \in {"bus", "dropping"}

\* C24 as claimed: loop() is never inside a sensor access (pox.update(),
\* rawSensor.update(), getRawValues, the temperature calls) while the
\* callback task is inside a bus reset or a priming sequence.
Cex_C24 == ~(race.tick = "access" /\ BusBusy(race))

\* loop() never ENTERS a sensor branch while the bus is busy (the flags
\* are cleared first and set last); it is the branch entered just before
\* that overlaps
NoEntryWhileBusy ==
    (lastEvent.type = "tick" /\ lastEvent.at = "check" /\ BusBusy(race)) =>
        race.tick = "report"

----------------------------------------------------------------------------
(* C25 *)

\* the Reporting Rate column of the quick reference, in ms
DocumentedRate(mode) ==
    IF mode = MODE_IDLE THEN 2000
    ELSE IF mode = MODE_HR_SPO2 THEN 500
    ELSE IF mode = MODE_TEMPERATURE THEN 2000
    ELSE IF mode = MODE_FORCE_TEST THEN 100
    ELSE IF mode = MODE_DISTANCE_TEST THEN 100
    ELSE IF mode = MODE_QUALITY THEN 1000
    ELSE 500

\* newReportingPeriod of switchMode in firmware/main copy.cpp (its chain of
\* comparisons resolves the names as the one of part_000 does)
resolvePeriod_mainCopy(modeName) ==
    IF StrCmpEq(modeName, S_HR_SPO2) THEN 500
    ELSE IF StrCmpEq(modeName, S_TEMPERATURE) THEN 2000
    ELSE IF StrCmpEq(modeName, S_FORCE_TEST) THEN 100
    ELSE IF StrCmpEq(modeName, S_DISTANCE_TEST) THEN 100
    ELSE IF StrCmpEq(modeName, S_QUALITY) THEN 1000
    ELSE IF StrCmpEq(modeName, S_RAW_DATA) THEN 500
    ELSE IF StrCmpEq(modeName, S_IDLE) THEN 2000
    ELSE 1000

\* C25 as claimed: after a MODE command that changes the mode the
\* reporting period is the documented rate of the new mode, in part_000 and
\* in firmware/main copy.cpp.
Cex_C25 ==
    clientConnected =>
        \A name \in ModeNameInputs, env \in ModeEnvs :
        \A r \in { handleControlCommand(G, S_MODE \o name, env) } :
            r.currentMode # currentMode =>
                /\ r.reportingPeriod = DocumentedRate(r.currentMode)
                /\ resolvePeriod_mainCopy(name) = DocumentedRate(resolveMode(name))

\* what the code does: part_000 reports every 500 ms in every mode;
\* main copy.cpp has the documented rate for each of the seven names (and
\* 1000 ms for IDLE entered by a name it does not know)
PeriodAlwaysDefault ==
    /\ reportingPeriod = DefaultReportingPeriod
    /\ \A name \in ModeNameInputs, env \in ModeEnvs :
          handleControlCommand(G, S_MODE \o name, env).reportingPeriod
              = DefaultReportingPeriod
    /\ \A name \in KnownModeNames :
          resolvePeriod_mainCopy(name) = DocumentedRate(ModeOfName[name])
    /\ \A name \in UnknownModeNames :
          resolveMode(name) = MODE_IDLE /\ resolvePeriod_mainCopy(name) = 1000

----------------------------------------------------------------------------
(* C26 *)

\* texts given with LABEL: and arguments given with START: (with and
\* without a distance, empty)
LabelTexts == { S_rest, S_long_label, << >> }
StartArguments == { S_red_10, S_none, << >> }

\* C26: from every reachable state, a LABEL command received in a mode
\* other than FORCE_TEST and a START command received in a mode other than
\* DISTANCE_TEST change no global at all (mode, sensor flags, reporting
\* period, report timer, labels, target, distance, collecting flags, sums,
\* sample count); connected, the command is answered with a status.
Thm_C26 ==
    \A env \in PlainEnvs :
        /\ currentMode # MODE_FORCE_TEST =>
              \A text \in LabelTexts :
              \A r \in { handleControlCommand(G, S_LABEL \o text, env) } :
                  /\ Globals(r) = G
                  /\ clientConnected => EndsWithStatusOf(r)
        /\ currentMode # MODE_DISTANCE_TEST =>
              \A arg \in StartArguments :
              \A r \in { handleControlCommand(G, S_START \o arg, env) } :
                  /\ Globals(r) = G
                  /\ clientConnected => EndsWithStatusOf(r)

\* LABEL was received in DISTANCE_TEST while a session was collecting
Wit_C26 ==
    /\ IsCommand(S_LABEL \o S_long_label)
    /\ currentMode = MODE_DISTANCE_TEST
    /\ distanceTest.collectingData
    /\ ~forceTest.isCollecting
    /\ Emissions(log) # {}

----------------------------------------------------------------------------
(* C27 *)

\* C27: from every reachable state STOP leaves the mode and the sensor
\* flags as they are; in FORCE_TEST it sets isCollecting false and the
\* label to "waiting" and changes nothing else, in DISTANCE_TEST it sets
\* collectingData false and changes nothing else; in every other mode, and
\* in these two when no session is collecting, it changes no global.
Thm_C27 ==
    \A env \in PlainEnvs :
    \A r \in { handleControlCommand(G, S_STOP, env) } :
        /\ r.currentMode = currentMode
        /\ r.poxInitialized = poxInitialized
        /\ r.rawSensorInitialized = rawSensorInitialized
        /\ currentMode = MODE_FORCE_TEST =>
              Globals(r) = [G EXCEPT !.forceTest.isCollecting = FALSE,
                                     !.forceTest.currentLabel = S_waiting]
        /\ currentMode = MODE_DISTANCE_TEST =>
              Globals(r) = [G EXCEPT !.distanceTest.collectingData = FALSE]
        /\ currentMode \notin {MODE_FORCE_TEST, MODE_DISTANCE_TEST} =>
              Globals(r) = G
        /\ ~InSession(G) => Globals(r) = G
        /\ clientConnected => EndsWithStatusOf(r)

\* STOP was received in DISTANCE_TEST after a session had taken a sample
Wit_C27 ==
    /\ IsCommand(S_STOP)
    /\ currentMode = MODE_DISTANCE_TEST
    /\ ~distanceTest.collectingData
    /\ distanceTest.sampleCount > 0
    /\ rawSensorInitialized

----------------------------------------------------------------------------
(* C28 *)

\* the period check of the iteration that led to t fired at clock reading
\* time: sendData() was called and the timer reference set
Fired(t, time) ==
    /\ t.tsLastReport = time
    /\ t.clientConnected => Cardinality(Ops(t.log, "data")) = 1
    /\ ~t.clientConnected => Ops(t.log, "data") = {}

\* C28: from every reachable state, however recently the last report was
\* made (in the same millisecond included), a MODE command that changes
\* the mode returns with the timer reference 0, and the period check of the
\* next loop() iteration, run at once and whatever the sensors read, fires:
\* it calls sendData(), which with a client connected sends one payload
\* (that of the new mode, no session running yet).
Thm_C28 ==
    \A name \in ModeNameInputs :
    \A r \in { Globals(handleControlCommand(G, S_MODE \o name, env)) :
                  env \in ModeEnvs } :
        r.currentMode # currentMode =>
            /\ r.tsLastReport = 0
            /\ \A sample \in TickSamples, lenv \in LoopEnvs :
               \A t \in { loop(r, sample, lenv) } :
                  /\ Fired(t, now)
                  /\ \A i \in Ops(t.log, "data") :
                        /\ t.log[i].written
                        /\ t.log[i].payload.kind = KindOfMode(r.currentMode)

\* a MODE command changed the mode in the millisecond in which the last
\* report, an HR_SPO2 payload, was sent
Wit_C28 ==
    /\ IsCommand(S_MODE \o S_TEMPERATURE)
    /\ clientConnected /\ currentMode = MODE_TEMPERATURE
    /\ tsLastReport = 0
    /\ buffer # Indeterminate
    /\ buffer.kind = "hr_spo2" /\ buffer.timestamp = now

----------------------------------------------------------------------------
(* C29 *)

\* in the record lg of one command, the bus operation just before every
\* priming attempt is a bus reset
ResetBeforePriming(lg) ==
    \A i \in Ops(lg, "primeSensor") :
        \E k \in Ops(lg, "resetSensors") :
            k < i /\ \A j \in BusOps(lg) : ~(k < j /\ j < i)

\* C29: from every reachable state, whichever variant is live, in every
\* MODE command every priming attempt comes right after a bus reset made
\* by that command (no other bus operation lies between them): the first
\* attempt after the reset at the head of the initializer, a retry after
\* the reset that follows the failed attempt.  This includes the
\* transitions between two modes of the same variant.
Thm_C29 ==
    \A name \in ModeNameInputs, env \in ModeEnvs :
        ResetBeforePriming(handleControlCommand(G, S_MODE \o name, env).log)

\* MODE:QUALITY primed the pulse oximeter after one reset, the last report
\* having been an HR_SPO2 payload
Wit_C29 ==
    /\ IsCommand(S_MODE \o S_QUALITY)
    /\ currentMode = MODE_QUALITY /\ poxInitialized
    /\ buffer # Indeterminate /\ buffer.kind = "hr_spo2"
    /\ Cardinality(Ops(log, "resetSensors")) = 1
    /\ Cardinality(Ops(log, "primeSensor")) = 1
    /\ ResetBeforePriming(log)

----------------------------------------------------------------------------
(* C30 *)

Starts(lg) == Ops(lg, "startTemperatureSampling")

\* C30: in TEMPERATURE, one loop() iteration starts at most one
\* conversion, and starts one exactly when the raw sensor is live, the
\* in-flight flag is clear and more than tempSamplingPeriod has passed
\* since the last start (the start is then stamped with the clock); the
\* flag is cleared by an iteration exactly when the sensor is live, a
\* conversion is in flight and the device reports it complete, and the
\* temperature changes only then, to the result read.  No command that keeps the mode touches the
\* flag, and entering TEMPERATURE begins with the flag clear.
Thm_C30 ==
    /\ currentMode = MODE_TEMPERATURE =>
          /\ \A sample \in TempSamples, lenv \in LoopEnvs :
             \A t \in { loop(G, sample, lenv) } :
                LET due == /\ rawSensorInitialized
                           /\ ~temperatureMode.tempSamplingStarted
                           /\ now - temperatureMode.tsLastTempSample
                                  > tempSamplingPeriod
                    flying == temperatureMode.tempSamplingStarted \/ due
                    done == rawSensorInitialized /\ flying /\ sample.tempReady
                IN /\ Cardinality(Starts(t.log)) = IF due THEN 1 ELSE 0
                   /\ t.temperatureMode.tsLastTempSample =
                         IF due THEN now ELSE temperatureMode.tsLastTempSample
                   /\ t.temperatureMode.tempSamplingStarted = (flying /\ ~done)
                   /\ t.temperature = IF done THEN sample.temperature
                                      ELSE temperature
          /\ \A command \in OtherCommands \cup { S_MODE \o S_TEMPERATURE, S_PING },
                env \in PlainEnvs :
                handleControlCommand(G, command, env).temperatureMode
                    = temperatureMode
    /\ currentMode # MODE_TEMPERATURE =>
          \A env \in ModeEnvs :
              ~handleControlCommand(G, S_MODE \o S_TEMPERATURE, env)
                  .temperatureMode.tempSamplingStarted

\* a conversion started on an earlier iteration was reported complete on
\* this one and its result stored
Wit_C30 ==
    /\ lastEvent.type = "loop"
    /\ currentMode = MODE_TEMPERATURE /\ rawSensorInitialized
    /\ ~temperatureMode.tempSamplingStarted
    /\ temperatureMode.tsLastTempSample > 0
    /\ temperatureMode.tsLastTempSample < now
    /\ temperature = SampleA.temperature

----------------------------------------------------------------------------
(* C31 *)

\* the tick of the record r at clock time, its report due
TickAt(r, time) ==
    { loop([Globals(r) EXCEPT !.now = time, !.tsLastReport = 0], sample, env) :
        sample \in SessionSamples, env \in LoopEnvs }

\* C31: in ForceTest, a LABEL that finds a session collecting replaces the
\* label and restarts the collection window at the clock of that LABEL: a
\* tick before one collection duration has passed since the latest LABEL,
\* the tick at the expiry of the window the session had before included,
\* leaves the session collecting and sends the new label, and the tick one
\* full duration after the latest LABEL closes it; a loop iteration closes
\* a collecting session exactly when its report is due and one duration has
\* passed since the latest LABEL.
Thm_C31 ==
    /\ \A text \in { S_rest, S_long_label }, env \in PlainEnvs :
          (clientConnected /\ currentMode = MODE_FORCE_TEST /\ forceTest.isCollecting) =>
             LET r == handleControlCommand(G, S_LABEL \o text, env)
                 kept == StrNCpyTerminated(text, LabelSize)
                 before == forceTest.collectionStartTime + collectionDuration
             IN /\ r.forceTest = [ currentLabel |-> kept, isCollecting |-> TRUE,
                                   collectionStartTime |-> now ]
                /\ \A time \in { before, now + collectionDuration - TimeStep,
                                 now + collectionDuration } :
                      time >= now =>
                        \A t \in TickAt(r, time) :
                           IF time - now >= collectionDuration
                           THEN /\ ~t.forceTest.isCollecting
                                /\ Ops(t.log, "data") = {}
                           ELSE /\ t.forceTest = r.forceTest
                                /\ \A i \in Ops(t.log, "data") :
                                      /\ t.log[i].payload.collecting
                                      /\ t.log[i].payload.label = kept
    /\ (currentMode = MODE_FORCE_TEST /\ forceTest.isCollecting) =>
          forceTest.collectionStartTime = given.start
    /\ \A sample \in SessionSamples, env \in LoopEnvs :
          (currentMode = MODE_FORCE_TEST /\ forceTest.isCollecting) =>
             ( ~loop(G, sample, env).forceTest.isCollecting
                 <=> ( /\ clientConnected /\ ReportDue(G)
                       /\ SinceLabel(now) >= collectionDuration ) )

\* a session relabelled while collecting has been closed by the tick one
\* collection duration after its latest LABEL, later than the expiry of the
\* window its first LABEL opened
Wit_C31 ==
    /\ lastEvent.type = "loop"
    /\ clientConnected /\ currentMode = MODE_FORCE_TEST
    /\ tsLastReport = now /\ Ops(log, "data") = {}
    /\ ~forceTest.isCollecting /\ forceTest.currentLabel = S_waiting
    /\ given.first < given.start
    /\ SinceLabel(now) = collectionDuration

----------------------------------------------------------------------------
(* C32 *)

\* the optical variant switchMode initializes for a mode
RequiredVariant(mode) ==
    IF needsPulseOx(mode) THEN "pulse-oximetry"
    ELSE IF needsRawSensor(mode) THEN "raw"
    ELSE "none"

Recovered(r, M) == r.currentMode = M /\ OpticalVariant(r) = RequiredVariant(M)

----------------------------------------------------------------------------
(* C33 *)

\* C33 as claimed: in every reachable state between handlers, with no
\* priming attempt failed and memory never low (SpecTemp: the sensor always
\* answers, the heap is at its limit), a mode other than IDLE has the
\* optical variant it requires live, whatever commands were processed.
Cex_C33 ==
    currentMode # MODE_IDLE => OpticalVariant(G) = RequiredVariant(currentMode)

\* what the code does: a command other than RESET keeps a mode with its
\* sensor so, RESET in a mode other than IDLE leaves the mode and clears
\* both flags, and the MODE command naming the current mode again changes
\* nothing
ResetLeavesModeBare ==
    \A command \in TempCommands, env \in PlainEnvs :
        LET r == handleControlCommand(G, command, env) IN
        /\ (command # S_RESET /\ ~Broken(G)) => ~Broken(r)
        /\ (command = S_RESET /\ currentMode # MODE_IDLE) =>
              /\ r.currentMode = currentMode
              /\ OpticalVariant(r) = "none"
              /\ Broken(r)
        /\ (Broken(G) /\ command = S_MODE \o NameOfMode(currentMode)) =>
              Globals(r) = G

----------------------------------------------------------------------------
(* C34 *)

\* C34 as claimed: every data notification a tick sends carries a payload
\* that was formatted into the buffer during that tick.
Cex_C34 ==
    lastEvent.type = "loop" =>
        \A i \in Ops(log, "data") :
            /\ log[i].written
            /\ log[i].payload = buffer

\* where the code sends a buffer it has not written: on the ticks of a
\* collecting DistanceTest session that do not complete a batch, and only
\* there; every such tick sends exactly one notification
UnwrittenBetweenBatches ==
    lastEvent.type = "loop" =>
        /\ Cardinality(Ops(log, "data")) <= 1
        /\ \A i \in Ops(log, "data") :
              IF /\ currentMode = MODE_DISTANCE_TEST
                 /\ distanceTest.collectingData
                 /\ distanceTest.sampleCount % samplesPerBatch # 0
              THEN ~log[i].written
              ELSE /\ log[i].written
                   /\ log[i].payload = buffer

----------------------------------------------------------------------------
(* C35 *)

S_infra_r == <<"i","n","f","r","a","_","r">>
S_50 == <<":","5","0">>

\* arguments of START: identifiers of 2, 3, 7, 8 and 13 characters, with
\* and without a distance part
StartTargets ==
    { S_ir, S_red_10, S_ambient_light, S_infra_r \o S_50,
      S_infra_r \o <<"2">> \o S_50, S_ambient_light \o S_50 }

\* C35 as claimed: every START command, with or without a distance part
\* and whatever the length of its identifier, writes at most LedSize bytes
\* (terminator included) into currentLED, and leaves everything outside
\* distanceTest as it was.
Cex_C35 ==
    \A arg \in StartTargets, env \in PlainEnvs :
        LET r == dispatchCommand(G, S_START \o arg, env) IN
        /\ r.distanceTest.ledBytes <= LedSize
        /\ [r EXCEPT !.distanceTest = distanceTest] = G

\* what the code does: without a distance part the copy is cut to
\* LedSize - 1 characters and fills the array; with one, the whole
\* identifier up to the colon is copied and terminated, whatever its length,
\* so that an identifier of LedSize characters or more is written past the
\* end of the array
LedCopyAsCoded ==
    \A arg \in StartTargets, env \in PlainEnvs :
        LET r == dispatchCommand(G, S_START \o arg, env)
            colon == StrChr(arg, ":")
        IN IF currentMode # MODE_DISTANCE_TEST THEN r = G
           ELSE /\ [r EXCEPT !.distanceTest = distanceTest] = G
                /\ r.distanceTest.collectingData
                /\ IF colon < 0
                   THEN /\ r.distanceTest.ledBytes = LedSize
                        /\ r.distanceTest.currentLED =
                               SubSeq(arg, 1, Min(Len(arg), LedSize - 1))
                   ELSE /\ r.distanceTest.ledBytes = colon + 1
                        /\ colon < LedSize =>
                               r.distanceTest.currentLED = SubSeq(arg, 1, colon)
                        /\ colon >= LedSize =>
                               r.distanceTest.ledBytes > LedSize

----------------------------------------------------------------------------
(* C36 *)

\* C36 as claimed: with loop() iterating and the clock advancing, every
\* ForceTest session that is collecting eventually is not, whatever
\* commands, mode changes and disconnects follow its LABEL.
Cex_C36 == forceTest.isCollecting ~> ~forceTest.isCollecting

\* what the code does guarantee: a collecting session ends or the mode is
\* no longer FORCE_TEST
SessionEndsInMode ==
    forceTest.isCollecting ~>
        (~forceTest.isCollecting \/ currentMode # MODE_FORCE_TEST)

\* outside FORCE_TEST the flag of a session stays set until a disconnect
\* or the next entry into FORCE_TEST
StaleSessionKept ==
    [][ ( /\ forceTest.isCollecting /\ currentMode # MODE_FORCE_TEST
          /\ ~forceTest'.isCollecting )
        => (lastEvent'.type = "disconnect" \/ currentMode' = MODE_FORCE_TEST) ]_vars

----------------------------------------------------------------------------
(* C37 *)

\* C37 as claimed: in DistanceTest, however long the session, every average
\* payload a tick formats reports the number of samples taken since START
\* and their means, and its divisor is not 0.
Cex_C37 ==
    lastEvent.type = "loop" =>
        \A i \in Averages(log) :
            log[i].written =>
                /\ log[i].payload.samples > 0
                /\ RightAverage(log[i].payload)

\* what the code does: sampleCount is the number of samples since START
\* modulo 2^16, and the averages are right as long as that number is below
\* 2^16
CountModuloWidth ==
    /\ (currentMode = MODE_DISTANCE_TEST /\ distanceTest.collectingData) =>
          distanceTest.sampleCount = taken.count % UINT16
    /\ (lastEvent.type = "loop" /\ taken.count < UINT16) =>
          \A i \in Averages(log) :
              log[i].written => RightAverage(log[i].payload)

----------------------------------------------------------------------------
(* C38 *)

\* C38: in every reachable state goodQualitySamples is at most
\* totalSamples; right after an entry into QUALITY both are 0; and
\* totalSamples is the number of QUALITY payloads sent since the last entry
\* into QUALITY (0 before the first).
Thm_C38 ==
    /\ qualityMode.goodQualitySamples <= qualityMode.totalSamples
    /\ taken.fresh =>
          /\ currentMode = MODE_QUALITY
          /\ qualityMode.totalSamples = 0
          /\ qualityMode.goodQualitySamples = 0
    /\ qualityMode.totalSamples = taken.count
    /\ lastEvent.type = "loop" =>
          \A i \in QualityPayloads(log) :
              log[i].written /\ currentMode = MODE_QUALITY

\* the fourth sample since an entry into QUALITY made after the first
\* reporting period has been reported, some of the four good and some not
Wit_C38 ==
    /\ lastEvent.type = "loop"
    /\ currentMode = MODE_QUALITY
    /\ QualityPayloads(log) # {}
    /\ taken.count = 4 /\ qualityMode.totalSamples = 4
    /\ qualityMode.goodQualitySamples \in 2..3
    /\ now > SetupDelay + 3 * TimeStep

----------------------------------------------------------------------------
(* C39 *)

\* a priming attempt that times out in its last dummy read
PrimeTimeoutLast == [begin |-> TRUE, timeoutAt |-> DummyReads, ready |-> TRUE]

\* every way three priming attempts can go
PrimeTriples ==
    LET outcomes == PrimeOutcomes \cup { PrimeTimeoutLast }
    IN { << a, b, c >> : a \in outcomes, b \in outcomes, c \in outcomes }

\* the work a handler did is within the bounds of its loops
BoundedWork(lg, mode) ==
    /\ Cardinality(Ops(lg, "primeSensor")) <=
          (IF needsPulseOx(mode) THEN maxRetries
           ELSE IF needsRawSensor(mode) THEN 1 ELSE 0)
    /\ \A i \in Ops(lg, "primeSensor") :
          /\ lg[i].reads <= DummyReads
          /\ lg[i].isPulseOximeter = needsPulseOx(mode)
    /\ Cardinality(Ops(lg, "resetSensors")) <= maxRetries + 2

\* C39: every command returns after a bounded amount of work.  From every
\* reachable state a MODE command, whatever the three priming attempts
\* would do (the sensor answering, absent, timing out early or late, not
\* ready) and whether memory is low, makes at most 3 priming attempts when
\* the mode needs the pulse oximeter, at most 1 when it needs the raw
\* sensor and none otherwise, each of at most 10 dummy reads, and at most 5
\* bus resets, and with a client connected ends with a status; every other
\* command makes no priming attempt and at most one bus reset.
Thm_C39 ==
    /\ \A name \in KnownModeNames \cup { S_idle } :
       \A env \in Envs({LowHeapLimit}, PrimeTriples)
                    \cup Envs({LowHeapLimit - 1}, {AllReady}) :
          LET r == handleControlCommand(G, S_MODE \o name, env) IN
          /\ BoundedWork(r.log, r.currentMode)
          /\ clientConnected => EndsWithStatusOf(r)
    /\ \A command \in OtherCommands \cup { S_PING, << >> }, env \in PlainEnvs :
          LET r == handleControlCommand(G, command, env) IN
          /\ Ops(r.log, "primeSensor") = {}
          /\ Cardinality(Ops(r.log, "resetSensors")) <= 1
          /\ clientConnected => EndsWithStatusOf(r)
    /\ lastEvent.type = "command" => BoundedWork(log, currentMode)

\* a MODE:HR_SPO2 command has made its three priming attempts, none
\* successful, and returned with a status
Wit_C39 ==
    /\ IsCommand(S_MODE \o S_HR_SPO2)
    /\ currentMode = MODE_HR_SPO2 /\ ~poxInitialized
    /\ Cardinality(Ops(log, "primeSensor")) = maxRetries
    /\ \E i \in Ops(log, "primeSensor") : log[i].reads = 1
    /\ \E i \in Ops(log, "primeSensor") : log[i].reads = DummyReads
    /\ log[Len(log)].op = "status"

====
